---- MODULE Spec2Model ----
(***************************************************************************)
(* Streaming chat-completion translator of anon-kode:                      *)
(*   src/src/services/ollama-client.js   processOllamaStream               *)
(*   src/src/services/ollama-stream.js   createOllamaStreamProcessor       *)
(*   src/src/services/openai.ts          createStreamProcessor,            *)
(*                                       getCompletion (Ollama path)       *)
(*                                                                         *)
(* Text is modelled as sequences of symbols.  On the wire a symbol is one  *)
(* byte; after decoding it is one character.  A JSON frame                 *)
(*   {"message":{"content":C},"done":d}                                    *)
(* is written  "{" C... ["D"] "}"  : the content characters, then "D"      *)
(* when done is true.  Any proper prefix or suffix of a frame is not       *)
(* parsable, like a cut JSON text.                                         *)
(***************************************************************************)
EXTENDS Integers, Sequences, FiniteSets, TLC

\* ------------------------------------------------------------------ bounds
\* Greatest number of lines the upstream sends to a generator read on its own.
MaxLines == 3
\* Greatest number of frames the model streams in a turn of getCompletion.
MaxFrames == 2
\* Phrases in a text handed to recovery alone.
MaxPhrases == 2
\* Messages in the list a caller hands to getCompletion.
MaxMessages == 3

\* ------------------------------------------------------------------ symbols
NL == "\n"
SP == " "
Null == "null"
\* A content or arguments field that is null or missing.
NoValue == <<Null>>

\* String.prototype.trim removes them.
IsSpace(c) == c \in {NL, SP}

\* The two bytes of one code point, and the character they decode to.
LeadByte == "E1"
ContByte == "E2"
Wide == "e'"
\* U+FFFD, what TextDecoder writes for a malformed sequence.
Replacement == "?"

\* Structural characters of a frame.
Open == "{"
Close == "}"
DoneMark == "D"

\* ------------------------------------------------------------------ strings
\* String.prototype.substring(a, b): indices 0-based, clamped to the length.
Clamp(n, len) == IF n < 0 THEN 0 ELSE IF n > len THEN len ELSE n

Substring(s, a, b) ==
    LET lo == Clamp(a, Len(s))
        hi == Clamp(b, Len(s))
        from == IF lo <= hi THEN lo ELSE hi
        to == IF lo <= hi THEN hi ELSE lo
    IN  SubSeq(s, from + 1, to)

SubstringFrom(s, a) == Substring(s, a, Len(s))

\* String.prototype.indexOf: 0-based position of the first c, or -1.
IndexOf(s, c) ==
    IF \E i \in 1..Len(s) : s[i] = c
    THEN (CHOOSE i \in 1..Len(s) : s[i] = c /\ \A j \in 1..(i - 1) : s[j] # c) - 1
    ELSE -1

\* String.prototype.trim.
Trim(s) ==
    LET keep == {i \in 1..Len(s) : ~IsSpace(s[i])}
    IN  IF keep = {} THEN <<>>
        ELSE LET lo == CHOOSE i \in keep : \A j \in keep : i <= j
                 hi == CHOOSE i \in keep : \A j \in keep : j <= i
             IN  SubSeq(s, lo, hi)

RECURSIVE SplitNL(_)
\* String.prototype.split('\n').
SplitNL(s) ==
    LET i == IndexOf(s, NL)
    IN  IF i = -1 THEN <<s>>
        ELSE <<Substring(s, 0, i)>> \o SplitNL(SubstringFrom(s, i + 1))

RECURSIVE Reversed(_)
Reversed(ss) == IF ss = <<>> THEN <<>> ELSE Reversed(Tail(ss)) \o Head(ss)

RECURSIVE Concat(_)
\* s += t, for the strings of ss in order.
Concat(ss) == IF ss = <<>> THEN <<>> ELSE Head(ss) \o Concat(Tail(ss))

\* ------------------------------------------------------------------ decoder
RECURSIVE DecodeAlone(_, _)
\* decode(value) without {stream: true}: every buffer is decoded on its own,
\* and a code point cut by the end of the buffer is malformed.
DecodeAlone(pend, bytes) ==
    IF bytes = <<>> THEN [chars |-> <<>>, pend |-> FALSE]
    ELSE LET b == Head(bytes)
             rest == Tail(bytes)
             r == DecodeAlone(FALSE, rest)
         IN  IF b = "E1" /\ rest # <<>> /\ Head(rest) = "E2"
             THEN LET r2 == DecodeAlone(FALSE, Tail(rest))
                  IN  [chars |-> <<"e'">> \o r2.chars, pend |-> FALSE]
             ELSE IF b \in {"E1", "E2"}
                  THEN [chars |-> <<"?">> \o r.chars, pend |-> FALSE]
                  ELSE [chars |-> <<b>> \o r.chars, pend |-> FALSE]

RECURSIVE DecodeBytes(_, _)
\* TextDecoder('utf-8').decode(value, {stream: true}): pend is TRUE when the
\* previous buffer ended inside a code point.  Never throws: a malformed
\* sequence decodes to U+FFFD.
DecodeBytes(pend, bytes) ==
    IF bytes = <<>> THEN [chars |-> <<>>, pend |-> pend]
    ELSE LET b == Head(bytes)
             rest == Tail(bytes)
         IN  IF pend
             THEN IF b = ContByte
                  THEN LET r == DecodeBytes(FALSE, rest)
                       IN  [chars |-> <<Wide>> \o r.chars, pend |-> r.pend]
                  ELSE LET r == DecodeBytes(FALSE, bytes)
                       IN  [chars |-> <<Replacement>> \o r.chars, pend |-> r.pend]
             ELSE IF b = LeadByte
                  THEN DecodeBytes(TRUE, rest)
                  ELSE IF b = ContByte
                       THEN LET r == DecodeBytes(FALSE, rest)
                            IN  [chars |-> <<Replacement>> \o r.chars, pend |-> r.pend]
                       ELSE LET r == DecodeBytes(FALSE, rest)
                            IN  [chars |-> <<b>> \o r.chars, pend |-> r.pend]

\* ------------------------------------------------------------------ frames
\* A character that can stand inside the content string of a frame.
Garbage == "x"
IsContentChar(c) == c \notin {Open, Close, DoneMark, Garbage, NL, SP}

\* JSON.parse(line) followed by the reads of .message.content and .done.
\* ok is FALSE when JSON.parse throws.  White space between JSON tokens is
\* insignificant.  content is <<>> when message or message.content is missing
\* or empty (both falsy).
ParseJSON(line) ==
    LET t == SelectSeq(line, LAMBDA c : ~IsSpace(c))
        n == Len(t)
        body == SubSeq(t, 2, n - 1)
        hasDone == body # <<>> /\ body[Len(body)] = DoneMark
        content == IF hasDone THEN SubSeq(body, 1, Len(body) - 1) ELSE body
        ok == /\ n >= 2
              /\ t[1] = Open
              /\ t[n] = Close
              /\ \A i \in 1..Len(content) : IsContentChar(content[i])
    IN  [ok |-> ok,
         content |-> IF ok THEN content ELSE <<>>,
         done |-> ok /\ hasDone]

\* The wire form of one frame.
Frame(content, done) ==
    <<Open>> \o content \o (IF done THEN <<DoneMark>> ELSE <<>>) \o <<Close>>

\* ------------------------------------------------------------------ texts
\* The text of a turn is a sequence of tokens: words, and marks (quotes, the
\* full stop, the line break, tags).  Words are separated by single blanks;
\* upper and lower case are not told apart, as under the /i flag and
\* toLowerCase().
TextNL == "<LF>"
\* The grave accent that encloses inline code.
BackTick == "<bt>"
DQuote == "\""
SQuote == "'"
Dot == "."

FcOpen == "<function_calls>"
FcClose == "</function_calls>"
ParamClose == "</parameter>"
ThinkOpen == "<think>"
ThinkClose == "</think>"

\* <invoke name="..."> tags and the name each carries.
InvokeBash == "<invoke name=\"Bash\">"
InvokeRead == "<invoke name=\"Read\">"
InvokeTags == {InvokeBash, InvokeRead}
InvokeName(t) == IF t = InvokeBash THEN "Bash" ELSE "Read"

\* <parameter name="..."> tags and the name each carries.
ParamCommand == "<parameter name=\"command\">"
ParamPath == "<parameter name=\"file_path\">"
ParamTags == {ParamCommand, ParamPath}
ParamName(t) == IF t = ParamCommand THEN "command" ELSE "file_path"

Tags == {FcOpen, FcClose, ParamClose, ThinkOpen, ThinkClose} \cup InvokeTags \cup ParamTags

\* A token made only of [a-zA-Z0-9_\-\.\/].
IsWord(t) == t \notin Tags \cup {TextNL, BackTick, DQuote, SQuote, "I'll"}

\* A token that holds one of \n . " '
StopsBare(t) == t \in {TextNL, Dot, DQuote, SQuote, "I'll"}

\* text has the tokens of phrase from position i on.
StartsAt(text, i, phrase) ==
    /\ i >= 1
    /\ i + Len(phrase) - 1 <= Len(text)
    /\ \A j \in 1..Len(phrase) : text[i + j - 1] = phrase[j]

\* String.prototype.includes for a phrase, and for one word.
Includes(text, phrase) == \E i \in 1..Len(text) : StartsAt(text, i, phrase)
Has(text, w) == \E i \in 1..Len(text) : text[i] = w

Least(S) == CHOOSE x \in S : \A y \in S : x <= y
Greatest(S) == CHOOSE x \in S : \A y \in S : y <= x

\* The result of String.prototype.match read at group 1: hit is TRUE when the
\* pattern matches and group 1 is a non-empty string.
NoHit == [hit |-> FALSE, cap |-> <<>>]
Hit(cap) == [hit |-> TRUE, cap |-> cap]

\* Position of the first token q after position from, or 0.
NextOf(text, from, q) ==
    LET S == {e \in (from + 1)..Len(text) : text[e] = q}
    IN  IF S = {} THEN 0 ELSE Least(S)

\* q([^q]+)q read with the opening mark at position open: the position of the
\* closing mark, or 0 when nothing or no closing mark follows.
ClosingOf(text, open, q) ==
    LET e == NextOf(text, open, q)
    IN  IF open <= Len(text) /\ text[open] = q /\ e >= open + 2 THEN e ELSE 0

\* /pre\s+q([^q]+)q/ : the leftmost match.
QuotedMatch(text, pre, q) ==
    LET S == {i \in 1..Len(text) :
                 StartsAt(text, i, pre) /\ ClosingOf(text, i + Len(pre), q) # 0}
    IN  IF S = {} THEN NoHit
        ELSE LET open == Least(S) + Len(pre)
             IN  Hit(SubSeq(text, open + 1, ClosingOf(text, open, q) - 1))

\* The subcommands of /run git (status|diff|...)/ .
GitSubs ==
    {"status", "diff", "log", "branch", "checkout", "pull", "push", "fetch",
     "clone", "add", "commit", "reset", "revert", "stash", "merge", "rebase"}

\* /verb git (status|diff|...)/ : group 1 is the subcommand alone.
GitSubMatch(text, verb) ==
    LET S == {i \in 1..(Len(text) - 2) :
                 text[i] = verb /\ text[i + 1] = "git" /\ text[i + 2] \in GitSubs}
    IN  IF S = {} THEN NoHit ELSE Hit(<<text[Least(S) + 2]>>)

\* The end of the longest run of tokens from position from on that holds none
\* of \n . " '  (from - 1 when there is none).
BareEnd(text, from) ==
    LET S == {e \in from..Len(text) : \A m \in from..e : ~StopsBare(text[m])}
    IN  IF S = {} THEN from - 1 ELSE Greatest(S)

\* /verb ([a-zA-Z0-9_\-\.\/]+(\s+[^\n\."\']+)?)/ : the word after the verb and
\* what follows it up to the next \n . " or '
BareMatch(text, verb) ==
    LET S == {i \in 1..(Len(text) - 1) : text[i] = verb /\ IsWord(text[i + 1])}
    IN  IF S = {} THEN NoHit
        ELSE LET w == Least(S) + 1
             IN  Hit(SubSeq(text, w, BareEnd(text, w + 1)))

\* The end of the line that holds position i.
LineEndOf(text, i) ==
    LET e == NextOf(text, i, TextNL)
    IN  IF e = 0 THEN Len(text) ELSE e - 1

\* /lead .* run q([^q]+)q/ : the leftmost lead, then (.* is greedy and stays
\* on the line) the last "run" of the line that a quoted command follows.
WildQuotedMatch(text, lead, q) ==
    LET runs(i) == {j \in (i + Len(lead) + 1)..LineEndOf(text, i) :
                       text[j] = "run" /\ ClosingOf(text, j + 1, q) # 0}
        S == {i \in 1..Len(text) : StartsAt(text, i, lead) /\ runs(i) # {}}
    IN  IF S = {} THEN NoHit
        ELSE LET open == Greatest(runs(Least(S))) + 1
             IN  Hit(SubSeq(text, open + 1, ClosingOf(text, open, q) - 1))

\* you (?:should|need to|can|could|would|must) run
YouModals ==
    {<<"you", "should", "run">>, <<"you", "need", "to", "run">>,
     <<"you", "can", "run">>, <<"you", "could", "run">>,
     <<"you", "would", "run">>, <<"you", "must", "run">>}

\* I(?:'ll| will| should| need to) run
SelfModals ==
    {<<"I'll", "run">>, <<"I", "will", "run">>, <<"I", "should", "run">>,
     <<"I", "need", "to", "run">>}

\* The positions where one of the phrases starts, with the position after it.
ModalEnds(text, phrases) ==
    {m \in {<<i, i + Len(ph)>> : i \in 1..Len(text), ph \in phrases} :
        \E ph \in phrases : m[2] = m[1] + Len(ph) /\ StartsAt(text, m[1], ph)}

\* /modal run\s+([a-zA-Z0-9_\-\.\/]+(\s+[^\n\."\'])?)/ : the word after the
\* phrase (the optional group adds at most one more character).
ModalBareMatch(text, phrases) ==
    LET S == {m \in ModalEnds(text, phrases) :
                 m[2] <= Len(text) /\ IsWord(text[m[2]])}
    IN  IF S = {} THEN NoHit
        ELSE LET first == Least({m[1] : m \in S})
                 m == CHOOSE x \in S : x[1] = first
             IN  Hit(<<text[m[2]]>>)

\* /modal run\s+q([^q]+)q/
ModalQuotedMatch(text, phrases, q) ==
    LET S == {m \in ModalEnds(text, phrases) : ClosingOf(text, m[2], q) # 0}
    IN  IF S = {} THEN NoHit
        ELSE LET first == Least({m[1] : m \in S})
                 m == CHOOSE x \in S : x[1] = first
             IN  Hit(SubSeq(text, m[2] + 1, ClosingOf(text, m[2], q) - 1))

\* ------------------------------------------------------------------ recovery
Q(pre, q) == [type |-> "quoted", pre |-> pre, q |-> q]
G(verb, alts) == [type |-> "gitsub", pre |-> <<verb>>, alts |-> alts]
N(pre) == [type |-> "nocap", pre |-> pre]
GA(pre, alts) == [type |-> "gitargs", pre |-> pre, alts |-> alts]
NW(lead, rest) == [type |-> "nocapwild", pre |-> lead, rest |-> rest]
B(verb) == [type |-> "bare", pre |-> <<verb>>]
W(lead, q) == [type |-> "wildquoted", pre |-> lead, q |-> q]
MB(who) == [type |-> "modalbare", pre |-> who]
MQ(who, q) == [type |-> "modalquoted", pre |-> who, q |-> q]

\* The alternatives of the git patterns of the streaming path, as written.
StreamGitAlts ==
    <<"status", "diff", "log", "branch", "checkout", "pull", "push", "fetch",
      "clone", "add", "commit", "reset", "revert", "stash", "merge", "rebase">>

\* The alternatives of the git patterns of the non-streaming path, as written.
NonStreamGitAlts ==
    <<"add", "status", "diff", "log", "branch", "checkout", "pull", "push",
      "fetch", "clone", "commit", "reset", "revert", "stash", "merge", "rebase">>

\* const commandPatterns = [...] of the streaming path, in table order.
CommandPatterns ==
    << Q(<<"run">>, BackTick), Q(<<"run">>, DQuote), Q(<<"run">>, SQuote),
       Q(<<"run", "the", "command">>, BackTick),
       Q(<<"run", "the", "command">>, DQuote),
       Q(<<"run", "the", "command">>, SQuote),
       Q(<<"execute">>, BackTick), Q(<<"execute">>, DQuote), Q(<<"execute">>, SQuote),
       Q(<<"execute", "the", "command">>, BackTick),
       Q(<<"execute", "the", "command">>, DQuote),
       Q(<<"execute", "the", "command">>, SQuote),
       G("run", StreamGitAlts), G("execute", StreamGitAlts),
       N(<<"run", "ls">>), N(<<"run", "cd">>), N(<<"run", "mkdir">>),
       N(<<"run", "rm">>), N(<<"run", "cat">>), N(<<"run", "grep">>),
       N(<<"run", "find">>), N(<<"run", "echo">>), N(<<"run", "touch">>),
       B("run"), B("execute"),
       NW(<<"you">>, <<"need", "to", "run", "git", "status">>),
       NW(<<"you">>, <<"run", "the", "git", "status", "command">>),
       NW(<<"I">>, <<"need", "to", "run", "git", "status">>),
       NW(<<"I">>, <<"run", "git", "status", "for">>),
       N(<<"using", "the", "git", "status", "command">>),
       NW(<<"To", "check">>, <<"git", "status">>),
       NW(<<"To", "see">>, <<"git", "status">>),
       W(<<"to", "check">>, DQuote), W(<<"to", "check">>, SQuote),
       W(<<"to", "check">>, BackTick),
       W(<<"to", "see">>, DQuote), W(<<"to", "see">>, SQuote),
       W(<<"to", "see">>, BackTick),
       W(<<"to", "view">>, DQuote), W(<<"to", "view">>, SQuote),
       W(<<"to", "view">>, BackTick),
       MB("you"), MQ("you", DQuote), MQ("you", SQuote), MQ("you", BackTick),
       MB("self"), MQ("self", DQuote), MQ("self", SQuote), MQ("self", BackTick) >>

\* const commandPatterns = [...] of the non-streaming path: the table of the
\* streaming path with its two git patterns replaced by three that take the
\* rest of the line as well.
NonStreamPatterns ==
    SubSeq(CommandPatterns, 1, 12)
    \o << GA(<<"run">>, NonStreamGitAlts), GA(<<"execute">>, NonStreamGitAlts),
          GA(<<>>, NonStreamGitAlts) >>
    \o SubSeq(CommandPatterns, 15, Len(CommandPatterns))

\* Where /pre git (add|status|...)(\s+[^\n]+)?/ matches leftmost, 0 when
\* nowhere.
GitArgsAt(text, pre) ==
    LET S == {i \in 1..Len(text) :
                 /\ StartsAt(text, i, pre \o <<"git">>)
                 /\ i + Len(pre) + 1 <= Len(text)
                 /\ text[i + Len(pre) + 1] \in GitSubs}
    IN  IF S = {} THEN 0 ELSE Least(S)

\* Group 1 of that match: the subcommand.
GitArgsMatch(text, pre) ==
    LET i == GitArgsAt(text, pre)
    IN  IF i = 0 THEN NoHit ELSE Hit(<<text[i + Len(pre) + 1]>>)

\* match[0] of that match: up to the subcommand, and when something other
\* than line breaks follows, on to the end of the line it stands on.
GitArgsWhole(text, pre) ==
    LET i == GitArgsAt(text, pre)
        sub == i + Len(pre) + 1
        S == {j \in (sub + 1)..Len(text) : text[j] # TextNL}
    IN  IF S = {} THEN SubSeq(text, i, sub)
        ELSE SubSeq(text, i, LineEndOf(text, Least(S)))

Modals(who) == IF who = "you" THEN YouModals ELSE SelfModals

\* accumulatedContent.match(pattern), read at group 1.  A pattern without
\* group leaves match[1] undefined whatever it matches.
PatternMatch(p, text) ==
    CASE p.type = "quoted" -> QuotedMatch(text, p.pre, p.q)
      [] p.type = "gitsub" -> GitSubMatch(text, p.pre[1])
      [] p.type = "gitargs" -> GitArgsMatch(text, p.pre)
      [] p.type = "nocap" -> NoHit
      [] p.type = "nocapwild" -> NoHit
      [] p.type = "bare" -> BareMatch(text, p.pre[1])
      [] p.type = "wildquoted" -> WildQuotedMatch(text, p.pre, p.q)
      [] p.type = "modalbare" -> ModalBareMatch(text, Modals(p.pre))
      [] p.type = "modalquoted" -> ModalQuotedMatch(text, Modals(p.pre), p.q)

\* /lead.*rest/ : the rest follows the lead on the same line.
WildMatches(text, lead, rest) ==
    \E i \in 1..Len(text) :
        /\ StartsAt(text, i, lead)
        /\ \E j \in (i + Len(lead))..LineEndOf(text, i) :
              StartsAt(text, j, rest) /\ j + Len(rest) - 1 <= LineEndOf(text, i)

\* if (match): the pattern matches the text, with or without a group.
Matches(p, text) ==
    CASE p.type = "nocap" -> Includes(text, p.pre)
      [] p.type = "nocapwild" -> WildMatches(text, p.pre, p.rest)
      [] OTHER -> PatternMatch(p, text).hit

\* pattern.toString().includes('(add|status|diff|log')
IsGitSpecial(p) ==
    /\ p.type \in {"gitsub", "gitargs"}
    /\ SubSeq(p.alts, 1, 4) = <<"add", "status", "diff", "log">>

\* match[0] of a git pattern.
WholeMatch(p, text) ==
    IF p.type = "gitargs" THEN GitArgsWhole(text, p.pre)
    ELSE p.pre \o <<"git">> \o PatternMatch(p, text).cap

\* match[0].replace(/^(run|execute)\s+/, '') when match[0] starts with
\* 'run ' or 'execute ', match[0] otherwise.
StripVerb(whole) ==
    IF whole # <<>> /\ whole[1] \in {"run", "execute"} THEN Tail(whole) ELSE whole

\* No command: let command = null.
NoCommand == <<>>

RECURSIVE PatternCommand(_, _, _)
\* for (const pattern of commandPatterns): the first pattern, from the k-th
\* on, that sets the command ends the loop.
PatternCommand(table, text, k) ==
    IF k > Len(table) THEN NoCommand
    ELSE LET p == table[k]
             m == PatternMatch(p, text)
         IN  IF m.hit /\ IsGitSpecial(p)
             THEN StripVerb(WholeMatch(p, text))
             ELSE IF m.hit THEN m.cap
                  ELSE PatternCommand(table, text, k + 1)

\* /phrase\s+([^\n]+)/ : what follows the leftmost phrase that something
\* follows, line breaks skipped, up to the end of that line.
RestOfLineMatch(text, phrase) ==
    LET first(i) == LET S == {j \in (i + Len(phrase))..Len(text) : text[j] # TextNL}
                    IN  IF S = {} THEN 0 ELSE Least(S)
        S == {i \in 1..Len(text) : StartsAt(text, i, phrase) /\ first(i) # 0}
    IN  IF S = {} THEN NoHit
        ELSE LET b == first(Least(S))
             IN  Hit(SubSeq(text, b, LineEndOf(text, b)))

\* /git commit\s+flag\s+["']([^"']+)["']/
CommitMessageMatch(text, flag) ==
    LET quotes == {DQuote, SQuote}
        close(o) == LET S == {e \in (o + 1)..Len(text) : text[e] \in quotes}
                    IN  IF S # {} /\ Least(S) >= o + 2 THEN Least(S) ELSE 0
        S == {i \in 1..Len(text) :
                 /\ StartsAt(text, i, <<"git", "commit", flag>>)
                 /\ i + 3 <= Len(text)
                 /\ text[i + 3] \in quotes
                 /\ close(i + 3) # 0}
    IN  IF S = {} THEN NoHit
        ELSE LET o == Least(S) + 3
             IN  Hit(SubSeq(text, o + 1, close(o) - 1))

DefaultCommit == <<"git", "commit", "-m", DQuote, "Changes from Claude Code session", DQuote>>

\* The detectors tried from the last to the first.
KeywordsReversed(text) ==
    IF Includes(text, <<"git", "push">>) THEN <<"git", "push">>
    ELSE IF Includes(text, <<"git", "commit">>) \/ (Has(text, "commit") /\ Has(text, "changes"))
    THEN DefaultCommit
    ELSE IF Includes(text, <<"git", "add">>) \/ (Has(text, "stage") /\ Has(text, "changes"))
    THEN <<"git", "add", ".">>
    ELSE IF Includes(text, <<"git", "status">>) THEN <<"git", "status">>
    ELSE NoCommand

\* The four keyword detectors, an if / else if chain.
KeywordCommand(text) ==
    LET runGit == Includes(text, <<"run", "git">>)
        execGit == Includes(text, <<"execute", "git">>)
        add == RestOfLineMatch(text, <<"git", "add">>)
        cm == CommitMessageMatch(text, "-m")
        cam == CommitMessageMatch(text, "-am")
        push == RestOfLineMatch(text, <<"git", "push">>)
    IN  IF \/ Includes(text, <<"git", "status">>)
           \/ runGit /\ Has(text, "status")
           \/ Has(text, "show") /\ Has(text, "status")
           \/ Has(text, "user") /\ Has(text, "git") /\ Has(text, "status")
        THEN <<"git", "status">>
        ELSE IF \/ Includes(text, <<"git", "add">>)
                \/ runGit /\ Has(text, "add")
                \/ Has(text, "stage") /\ Has(text, "changes")
        THEN IF add.hit THEN <<"git", "add">> \o add.cap ELSE <<"git", "add", ".">>
        ELSE IF \/ Includes(text, <<"git", "commit">>)
                \/ runGit /\ Has(text, "commit")
                \/ execGit /\ Has(text, "commit")
                \/ Has(text, "commit") /\ Has(text, "changes")
        THEN IF cm.hit THEN <<"git", "commit", "-m", DQuote>> \o cm.cap \o <<DQuote>>
             ELSE IF cam.hit THEN <<"git", "commit", "-am", DQuote>> \o cam.cap \o <<DQuote>>
             ELSE DefaultCommit
        ELSE IF \/ Includes(text, <<"git", "push">>)
                \/ runGit /\ Has(text, "push")
                \/ execGit /\ Has(text, "push")
                \/ Has(text, "push") /\ Has(text, "changes") /\ Has(text, "remote")
        THEN IF push.hit THEN <<"git", "push">> \o push.cap ELSE <<"git", "push">>
        ELSE NoCommand

\* /open([\s\S]*?)close/ : the leftmost opening tag that a closing tag
\* follows, and what stands between it and the first closing tag after it.
Delimited(text, open, close) ==
    LET S == {i \in 1..Len(text) : text[i] = open /\ NextOf(text, i, close) # 0}
    IN  IF S = {} THEN [found |-> FALSE, inner |-> <<>>]
        ELSE [found |-> TRUE,
              inner |-> SubSeq(text, Least(S) + 1, NextOf(text, Least(S), close) - 1)]

\* The scan of the <think> section.
ThinkCommand(text) ==
    LET t == Delimited(text, ThinkOpen, ThinkClose)
        th == t.inner
    IN  IF ~(Has(text, ThinkOpen) /\ t.found /\ th # <<>>) THEN NoCommand
        ELSE IF Includes(th, <<"git", "status">>) THEN <<"git", "status">>
        ELSE IF Includes(th, <<"git", "diff">>) THEN <<"git", "diff">>
        ELSE IF Includes(th, <<"git", "log">>) THEN <<"git", "log">>
        ELSE IF Includes(th, <<"git", "add">>) THEN <<"git", "add", ".">>
        ELSE IF Includes(th, <<"git", "commit">>) THEN DefaultCommit
        ELSE IF Includes(th, <<"git", "push">>) THEN <<"git", "push">>
        ELSE NoCommand

\* The command the heuristics of the streaming path settle on.
HeuristicCommand(text) ==
    LET c1 == PatternCommand(CommandPatterns, text, 1)
        c2 == KeywordCommand(text)
    IN  IF c1 # NoCommand THEN c1
        ELSE IF c2 # NoCommand THEN c2
        ELSE ThinkCommand(text)

\* The command the heuristics of the non-streaming path settle on: its own
\* table, then the same keyword chain and the same <think> scan.
NonStreamHeuristicCommand(text) ==
    LET c1 == PatternCommand(NonStreamPatterns, text, 1)
        c2 == KeywordCommand(text)
    IN  IF c1 # NoCommand THEN c1
        ELSE IF c2 # NoCommand THEN c2
        ELSE ThinkCommand(text)

RawValue(raw) == raw
\* JSON.parse(paramValue), or the raw text when it throws.  A JSON string
\* literal decodes to what its quotes enclose.
ParamValue(raw) ==
    IF /\ Len(raw) >= 2
       /\ raw[1] = DQuote
       /\ raw[Len(raw)] = DQuote
       /\ \A i \in 2..(Len(raw) - 1) : raw[i] # DQuote
    THEN SubSeq(raw, 2, Len(raw) - 1)
    ELSE raw

\* params[name] = value: a name met again keeps its place and takes the
\* later value.
SetParam(params, name, value) ==
    IF \E i \in 1..Len(params) : params[i].name = name
    THEN [i \in 1..Len(params) |->
             IF params[i].name = name THEN [name |-> name, value |-> value]
             ELSE params[i]]
    ELSE Append(params, [name |-> name, value |-> value])

\* params.command and the like: <<>> stands for undefined and for ''.
GetParam(params, name) ==
    IF \E i \in 1..Len(params) : params[i].name = name
    THEN params[CHOOSE i \in 1..Len(params) : params[i].name = name].value
    ELSE <<>>

RECURSIVE ParamsFrom(_, _, _)
\* [...inner.matchAll(/<parameter name="([^"]+)">([\s\S]*?)<\/parameter>/g)]
\* and the loop that fills params, from position i on.
ParamsFrom(inner, i, found) ==
    LET S == {o \in i..Len(inner) :
                 inner[o] \in ParamTags /\ NextOf(inner, o, ParamClose) # 0}
    IN  IF S = {} THEN found
        ELSE LET o == Least(S)
                 c == NextOf(inner, o, ParamClose)
             IN  ParamsFrom(inner, c + 1,
                    SetParam(found, ParamName(inner[o]),
                             ParamValue(SubSeq(inner, o + 1, c - 1))))

NoParams == <<>>

\* A recovery that tries the heuristics before the explicit block.
HeuristicsFirst(text) ==
    LET ex == Delimited(text, FcOpen, FcClose)
        command == HeuristicCommand(text)
        invokes == {i \in 1..Len(ex.inner) : ex.inner[i] \in InvokeTags}
    IN  IF command # NoCommand
        THEN [kind |-> "call", name |-> "Bash",
              params |-> <<[name |-> "command", value |-> command]>>,
              explicit |-> FALSE]
        ELSE IF ~ex.found
        THEN [kind |-> "none", name |-> Null, params |-> NoParams, explicit |-> FALSE]
        ELSE IF invokes = {}
        THEN [kind |-> "unnamed", name |-> Null, params |-> NoParams, explicit |-> TRUE]
        ELSE [kind |-> "call",
              name |-> InvokeName(ex.inner[Least(invokes)]),
              params |-> ParamsFrom(ex.inner, 1, NoParams),
              explicit |-> TRUE]

\* The outcome of recovery: "none" (ordinary content), "call" (a function
\* call with its name and params) or "unnamed" (an explicit block without a
\* readable name: the text is returned as content).
Recovery(text) ==
    LET ex == Delimited(text, FcOpen, FcClose)
        command == HeuristicCommand(text)
        invokes == {i \in 1..Len(ex.inner) : ex.inner[i] \in InvokeTags}
    IN  IF ~ex.found
        THEN IF command # NoCommand
             THEN [kind |-> "call", name |-> "Bash",
                   params |-> <<[name |-> "command", value |-> command]>>,
                   explicit |-> FALSE]
             ELSE [kind |-> "none", name |-> Null, params |-> NoParams, explicit |-> FALSE]
        ELSE IF invokes = {}
             THEN [kind |-> "unnamed", name |-> Null, params |-> NoParams, explicit |-> TRUE]
             ELSE [kind |-> "call",
                   name |-> InvokeName(ex.inner[Least(invokes)]),
                   params |-> ParamsFrom(ex.inner, 1, NoParams),
                   explicit |-> TRUE]

\* The outcome of recovery on the non-streaming path.
NonStreamRecovery(text) ==
    LET ex == Delimited(text, FcOpen, FcClose)
        command == NonStreamHeuristicCommand(text)
        invokes == {i \in 1..Len(ex.inner) : ex.inner[i] \in InvokeTags}
    IN  IF ~ex.found
        THEN IF command # NoCommand
             THEN [kind |-> "call", name |-> "Bash",
                   params |-> <<[name |-> "command", value |-> command]>>,
                   explicit |-> FALSE]
             ELSE [kind |-> "none", name |-> Null, params |-> NoParams, explicit |-> FALSE]
        ELSE IF invokes = {}
             THEN [kind |-> "unnamed", name |-> Null, params |-> NoParams, explicit |-> TRUE]
             ELSE [kind |-> "call",
                   name |-> InvokeName(ex.inner[Least(invokes)]),
                   params |-> ParamsFrom(ex.inner, 1, NoParams),
                   explicit |-> TRUE]

\* ------------------------------------------------------------------ chunks
\* delta.role of a normalized chunk: only the first chunk carries it.
RoleAlways(first) == "assistant"
DeltaRole(first) == IF first THEN "assistant" ELSE Null

\* finish_reason of a normalized chunk.
StopAlways(done) == "stop"
FinishReason(done) == IF done THEN "stop" ELSE Null

\* The OpenAI-format chunk the normalizers build (id, created, object, index
\* and model are left out: they take no part in the translation).
OpenAIChunk(content, done, first) ==
    [role |-> DeltaRole(first),
     content |-> content,
     fcName |-> Null,
     fcArgs |-> NoValue,
     finish |-> FinishReason(done)]

\* The chunk emitTextStream yields: the whole text, with the role.
TextChunk(content) ==
    [role |-> "assistant", content |-> content, fcName |-> Null,
     fcArgs |-> NoValue, finish |-> "stop"]

\* The content of the chunk that reports an executed command: the command in
\* inline code, then the output or the error message in a fenced block.
Fence == "<fence>"
UnfencedText(command, outcome) ==
    <<IF outcome.ok THEN "Here's the output of" ELSE "Error executing">>
    \o command \o <<":", TextNL>> \o outcome.text
ResultText(command, outcome) ==
    <<IF outcome.ok THEN "Here's the output of" ELSE "Error executing", BackTick>>
    \o command \o <<BackTick, ":", TextNL, TextNL, Fence, TextNL>>
    \o outcome.text \o <<TextNL, Fence>>

ResultChunk(command, outcome) ==
    [role |-> "assistant", content |-> ResultText(command, outcome),
     fcName |-> Null, fcArgs |-> NoValue, finish |-> Null]

\* delta: {}, finish_reason: 'stop'
StopChunk ==
    [role |-> Null, content |-> NoValue, fcName |-> Null, fcArgs |-> NoValue,
     finish |-> "stop"]

RECURSIVE JSONMembers(_)
JSONMembers(params) ==
    IF params = <<>> THEN <<>>
    ELSE <<Head(params).name, ":">> \o Head(params).value
         \o (IF Len(params) > 1 THEN <<",">> ELSE <<>>) \o JSONMembers(Tail(params))

\* JSON.stringify(params)
JSONStringify(params) == <<"{">> \o JSONMembers(params) \o <<"}">>

\* content: null of the three chunks of a function call.
EmptyString == <<>>
FcContent == NoValue

FcStartChunk(name) ==
    [role |-> "assistant", content |-> FcContent, fcName |-> name,
     fcArgs |-> NoValue, finish |-> Null]

ArgsOmitted(params) ==
    [role |-> Null, content |-> FcContent, fcName |-> Null,
     fcArgs |-> <<"{", "}">>, finish |-> Null]
FcArgsChunk(params) ==
    [role |-> Null, content |-> FcContent, fcName |-> Null,
     fcArgs |-> JSONStringify(params), finish |-> Null]

FcDoneChunk ==
    [role |-> Null, content |-> FcContent, fcName |-> Null, fcArgs |-> NoValue,
     finish |-> "function_call"]

\* The response of the non-streaming path: a message in place of chunks.
\* The function call message carries the name and the arguments together.
FcMessage(name, params) ==
    [role |-> "assistant", content |-> FcContent, fcName |-> name,
     fcArgs |-> JSONStringify(params), finish |-> "function_call"]

\* The message that reports an executed command.
ResultMessage(command, outcome) ==
    [role |-> "assistant", content |-> ResultText(command, outcome),
     fcName |-> Null, fcArgs |-> NoValue, finish |-> "stop"]

\* What processOllamaStream yields: {content, done}.
ClientChunk(content, done) == [content |-> content, done |-> done]

\* ------------------------------------------------------------------ state
VARIABLES
    turn,          \* the request and configuration of the turn, and what was chosen for it
    stream,        \* the stream argument is an object (FALSE: null or undefined)
    wire,          \* every byte the upstream sends in this turn
    upstream,      \* the bytes not yet delivered by reader.read()
    kind,          \* which generator runs: "client", "stream" or "openai"
    pc,            \* position of the generator
    locked,        \* the reader holds the lock of the stream
    pending,       \* the decoder is inside a code point
    buffer,        \* let buffer
    lineEnd,       \* let lineEnd
    isFirstChunk,  \* let isFirstChunk
    flushLines,    \* lines left in the final loop of createStreamProcessor
    out,           \* chunks yielded so far
    opc,           \* position of getCompletion, "off" when another consumer reads
    accumulatedContent,  \* let accumulatedContent
    fullContent,   \* const fullContent
    call,          \* match / functionCall: the outcome of recovery
    emitted,       \* chunks the stream returned by getCompletion has yielded
    executed,      \* commands handed to execSync
    other          \* a second turn in the same process, waiting at an await

gen == <<turn, stream, wire, upstream, kind, pc, locked, pending, buffer, lineEnd,
         isFirstChunk, flushLines, out>>
orch == <<opc, accumulatedContent, fullContent, call, emitted, executed>>
vars == <<gen, orch, other>>

Kinds == {"client", "stream", "openai"}

\* ------------------------------------------------------------------ inputs
\* The lines an upstream may send.
LineKinds ==
    {Frame(<<"a">>, FALSE),
     Frame(<<LeadByte, ContByte>>, FALSE),
     Frame(<<"a">>, TRUE),
     Frame(<<>>, TRUE),
     <<Garbage>>,
     <<>>,
     <<SP>>}

RECURSIVE SeqsUpTo(_, _)
SeqsUpTo(S, n) ==
    IF n = 0 THEN {<<>>}
    ELSE LET shorter == SeqsUpTo(S, n - 1)
         IN  shorter \cup {Append(s, x) : s \in {t \in shorter : Len(t) = n - 1}, x \in S}

RECURSIVE JoinLines(_, _)
\* The lines joined by newlines; the last one ends with a newline when
\* terminated is TRUE.
JoinLines(ls, terminated) ==
    IF ls = <<>> THEN <<>>
    ELSE IF Len(ls) = 1
         THEN Head(ls) \o (IF terminated THEN <<NL>> ELSE <<>>)
         ELSE Head(ls) \o <<NL>> \o JoinLines(Tail(ls), terminated)

Inputs == {JoinLines(ls, t) : ls \in SeqsUpTo(LineKinds, MaxLines), t \in BOOLEAN}

\* ------------------------------------------------------------------ generators
\* The content fragments a model may stream to getCompletion.
Fragments ==
    {<<"ok">>,
     <<"run", BackTick, "ls", BackTick>>,
     <<"git", "status">>,
     <<"run", "ls", "-la">>,
     <<ThinkOpen, "git", "diff", ThinkClose>>,
     <<FcOpen>>,
     <<FcClose>>,
     <<"git", "status", FcClose>>,
     <<FcOpen, InvokeBash, ParamCommand, "ls", ParamClose>>,
     <<FcOpen, InvokeBash>>,
     <<FcOpen, InvokeRead, ParamPath, "f", ParamClose>>}

OrchLineKinds == {Frame(f, FALSE) : f \in Fragments} \cup {Frame(<<>>, TRUE)}

OrchInputs == {JoinLines(ls, TRUE) : ls \in SeqsUpTo(OrchLineKinds, MaxFrames)}

NoCall == [kind |-> "none", name |-> Null, params |-> NoParams, explicit |-> FALSE]

\* The providers a model type can be configured with.
Providers == {"ollama", "openai"}

\* What getCompletion(type, opts) and getGlobalConfig() give for a turn, as far
\* as the choice of the path reads it: the model type, the provider of each
\* model type, whether each base URL holds "ollama" (or the fixed address),
\* and whether the model name holds "hf.co/", "ollama" or "qwq".
Requests ==
    [type : {"large", "small"},
     largeModelProvider : Providers,
     smallModelProvider : Providers,
     largeURLOllama : BOOLEAN,
     smallURLOllama : BOOLEAN,
     modelOllama : BOOLEAN]

\* const isOllama of getCompletion.
GetCompletionIsOllama(r) ==
    \/ IF r.type = "large" THEN r.largeURLOllama ELSE r.smallURLOllama
    \/ r.modelOllama
    \/ r.type = "large" /\ r.largeModelProvider = "ollama"
    \/ r.type = "small" /\ r.smallModelProvider = "ollama"

\* const isOllama of createStreamProcessor: read from the configuration of
\* the large model, whatever the type of the request.
StreamProcessorIsOllama(r) ==
    r.largeURLOllama \/ r.largeModelProvider = "ollama"

\* A turn for which nothing is chosen yet.
NewTurn(r) == [request |-> r, path |-> "none", parser |-> "none"]

\* Ollama configured as the provider of the large model, a request for it.
OllamaRequest ==
    [type |-> "large", largeModelProvider |-> "ollama",
     smallModelProvider |-> "ollama", largeURLOllama |-> TRUE,
     smallURLOllama |-> TRUE, modelOllama |-> FALSE]

\* if (isOllama) { ... getOllamaCompletion ... } else the request is sent to
\* /chat/completions and its body goes to createStreamProcessor.
Route ==
    /\ turn.path = "none"
    /\ turn' = [turn EXCEPT !.path = IF GetCompletionIsOllama(turn.request)
                                     THEN "ollamaClient"
                                     ELSE "streamProcessor"]
    /\ UNCHANGED <<stream, wire, upstream, kind, pc, locked, pending, buffer,
                   lineEnd, isFirstChunk, flushLines, out>>
    /\ UNCHANGED orch
    /\ UNCHANGED other

\* The generator chooses its loop: processOllamaStream has the NDJSON loop
\* only, createStreamProcessor takes it when its own isOllama holds and the
\* loop for "data: " lines otherwise.
SelectParser ==
    /\ turn.path # "none"
    /\ turn.parser = "none"
    /\ turn' = [turn EXCEPT !.parser =
                    IF turn.path = "ollamaClient" THEN "ndjson"
                    ELSE IF StreamProcessorIsOllama(turn.request) THEN "ndjson"
                    ELSE "sse"]
    /\ UNCHANGED <<stream, wire, upstream, kind, pc, locked, pending, buffer,
                   lineEnd, isFirstChunk, flushLines, out>>
    /\ UNCHANGED orch
    /\ UNCHANGED other

\* No second turn.
NoTurn == [pc |-> "none"]

\* let buffer = ''; let isFirstChunk = true; the processor is not called yet.
InitGen ==
    /\ upstream = wire
    /\ pc = "call"
    /\ locked = FALSE
    /\ pending = FALSE
    /\ buffer = <<>>
    /\ lineEnd = -1
    /\ isFirstChunk = TRUE
    /\ flushLines = <<>>
    /\ out = <<>>
    /\ accumulatedContent = <<>>
    /\ fullContent = <<>>
    /\ call = NoCall
    /\ emitted = <<>>
    /\ executed = <<>>

\* A turn starts: either one of the three generators read by a consumer of
\* its own, or getCompletion on its streaming Ollama path, which reads
\* processOllamaStream.
Init ==
    /\ turn = [request |-> OllamaRequest, path |-> "ollamaClient", parser |-> "ndjson"]
    /\ \/ /\ opc = "off"
          /\ kind \in Kinds
          /\ \/ stream = TRUE /\ wire \in Inputs
             \/ stream = FALSE /\ wire = <<>>
       \/ /\ opc = "collect"
          /\ kind = "client"
          /\ \/ stream = TRUE /\ wire \in OrchInputs
             \/ stream = FALSE /\ wire = <<>>
    /\ InitGen
    /\ other = NoTurn

\* The chunk a generator yields for a frame with content.
Yielded(content, done) ==
    IF kind = "client" THEN ClientChunk(content, done)
    ELSE OpenAIChunk(content, done, isFirstChunk)

\* lineEnd = buffer.indexOf('\n')
NextLineEnd(buf) == IndexOf(buf, NL)

\* finally { reader.releaseLock() }
Leaked == TRUE
Released == FALSE

\* catch (e) { console.error(...) } around JSON.parse: the error is logged and
\* the loop goes on.
Rethrown == "failed"
AfterParseError == "split"

\* if (!stream) throw new Error("Stream is null or undefined"): where the
\* processor tests its argument.  createOllamaStreamProcessor and
\* createStreamProcessor test it in the function itself, processOllamaStream
\* inside the generator body.
ThrowsAtCall(k) == k \in {"stream", "openai"}

\* The processor is called with the stream: it throws, or returns a generator
\* that has not run yet.
Call ==
    /\ pc = "call"
    /\ pc' = (IF ~stream /\ ThrowsAtCall(kind) THEN "raised" ELSE "start")
    /\ UNCHANGED <<turn, stream, wire, upstream, kind, locked, pending, buffer, lineEnd,
                   isFirstChunk, flushLines, out>>
    /\ UNCHANGED orch
    /\ UNCHANGED other

\* The first next(): the generator body starts and takes the reader.
Start ==
    /\ pc = "start"
    /\ IF ~stream
       THEN pc' = "failed" /\ UNCHANGED locked
       ELSE pc' = "read" /\ locked' = TRUE
    /\ UNCHANGED <<turn, stream, wire, upstream, kind, pending, buffer, lineEnd, isFirstChunk,
                   flushLines, out>>
    /\ UNCHANGED orch
    /\ UNCHANGED other

\* const {done, value} = await reader.read() with done false: decode the
\* buffer the transport delivers (any non-empty prefix of what is left) and
\* append it.
ReadValue ==
    /\ pc = "read"
    /\ upstream # <<>>
    /\ \E k \in 1..Len(upstream) :
          LET d == DecodeBytes(pending, SubSeq(upstream, 1, k))
          IN  /\ upstream' = SubSeq(upstream, k + 1, Len(upstream))
              /\ pending' = d.pend
              /\ buffer' = buffer \o d.chars
              /\ lineEnd' = NextLineEnd(buffer \o d.chars)
    /\ pc' = "split"
    /\ UNCHANGED <<turn, stream, wire, kind, locked, isFirstChunk, flushLines, out>>
    /\ UNCHANGED orch
    /\ UNCHANGED other

\* The remaining lines createStreamProcessor processes after the loop.
Remaining(buf) == IF Trim(buf) # <<>> THEN SplitNL(Trim(buf)) ELSE <<>>

\* reader.read() with done true: break.  createStreamProcessor goes on to the
\* remaining buffer; the two other generators leave through finally.
ReadDone ==
    /\ pc = "read"
    /\ upstream = <<>>
    /\ IF kind = "openai"
       THEN /\ pc' = "flush"
            /\ flushLines' = Remaining(buffer)
            /\ UNCHANGED locked
       ELSE /\ pc' = "done"
            /\ locked' = Released
            /\ UNCHANGED flushLines
    /\ UNCHANGED <<turn, stream, wire, upstream, kind, pending, buffer, lineEnd, isFirstChunk, out>>
    /\ UNCHANGED orch
    /\ UNCHANGED other

\* reader.read() rejects: the exception leaves the generator through finally.
ReadThrows ==
    /\ pc = "read"
    /\ pc' = "failed"
    /\ locked' = Released
    /\ UNCHANGED <<turn, stream, wire, upstream, kind, pending, buffer, lineEnd, isFirstChunk,
                   flushLines, out>>
    /\ UNCHANGED orch
    /\ UNCHANGED other

\* One test of while (lineEnd !== -1) and, when it holds, one run of the body.
\* An empty line leaves through continue, which skips the assignment of
\* lineEnd at the end of the body.
SplitLine ==
    /\ pc = "split"
    /\ IF lineEnd = -1
       THEN /\ pc' = "read"
            /\ UNCHANGED <<buffer, lineEnd, isFirstChunk, out>>
       ELSE LET line == Trim(Substring(buffer, 0, lineEnd))
                rest == SubstringFrom(buffer, lineEnd + 1)
                p == ParseJSON(line)
            IN  /\ buffer' = rest
                /\ IF line = <<>>
                   THEN UNCHANGED <<pc, lineEnd, isFirstChunk, out>>
                   ELSE IF p.ok /\ p.content # <<>>
                        THEN /\ out' = Append(out, Yielded(p.content, p.done))
                             /\ isFirstChunk' = FALSE
                             /\ pc' = "yield"
                             /\ UNCHANGED lineEnd
                        ELSE /\ lineEnd' = NextLineEnd(rest)
                             /\ pc' = (IF p.ok THEN "split" ELSE AfterParseError)
                             /\ UNCHANGED <<isFirstChunk, out>>
    /\ UNCHANGED <<turn, stream, wire, upstream, kind, locked, pending, flushLines>>
    /\ UNCHANGED orch
    /\ UNCHANGED other

\* The consumer asks for the next chunk: the body goes on after yield.
Resume ==
    /\ opc = "off"
    /\ pc = "yield"
    /\ lineEnd' = NextLineEnd(buffer)
    /\ pc' = "split"
    /\ UNCHANGED <<turn, stream, wire, upstream, kind, locked, pending, buffer, isFirstChunk,
                   flushLines, out>>
    /\ UNCHANGED orch
    /\ UNCHANGED other

\* for (const line of lines) of createStreamProcessor, one line a step.
FlushLine ==
    /\ pc = "flush"
    /\ IF flushLines = <<>>
       THEN /\ pc' = "done"
            /\ locked' = Released
            /\ UNCHANGED <<flushLines, isFirstChunk, out>>
       ELSE LET line == Head(flushLines)
                p == ParseJSON(line)
            IN  /\ flushLines' = Tail(flushLines)
                /\ UNCHANGED locked
                /\ IF line # <<>> /\ p.ok /\ p.content # <<>>
                   THEN /\ out' = Append(out, Yielded(p.content, p.done))
                        /\ isFirstChunk' = FALSE
                        /\ pc' = "yieldFlush"
                   ELSE UNCHANGED <<pc, isFirstChunk, out>>
    /\ UNCHANGED <<turn, stream, wire, upstream, kind, pending, buffer, lineEnd>>
    /\ UNCHANGED orch
    /\ UNCHANGED other

ResumeFlush ==
    /\ pc = "yieldFlush"
    /\ pc' = "flush"
    /\ UNCHANGED <<turn, stream, wire, upstream, kind, locked, pending, buffer, lineEnd,
                   isFirstChunk, flushLines, out>>
    /\ UNCHANGED orch
    /\ UNCHANGED other

\* The consumer stops iterating (break in for await calls return()): the
\* generator leaves through finally.
Return ==
    /\ opc = "off"
    /\ pc \in {"yield", "yieldFlush"}
    /\ pc' = "closed"
    /\ locked' = Released
    /\ UNCHANGED <<turn, stream, wire, upstream, kind, pending, buffer, lineEnd, isFirstChunk,
                   flushLines, out>>
    /\ UNCHANGED orch
    /\ UNCHANGED other

\* ------------------------------------------------------------------ getCompletion
\* execSync(command, {maxBuffer, timeout}): the captured output, or an error
\* (non-zero exit, timeout, output over the cap) with its message.
ExecOutcomes ==
    {[ok |-> TRUE, text |-> <<"stdout">>],
     [ok |-> TRUE, text |-> <<>>],
     [ok |-> FALSE, text |-> <<"Command failed">>]}

\* for await (const chunk of ollamaStream) ends when the generator is done.
EndedByMarker == pc = "done" /\ out # <<>> /\ out[Len(out)].done
StreamYielded == pc \in {"yield", "done"}
StreamEnded == pc = "done"

\* The body of for await: a chunk with content is added to the accumulated
\* text and kept, then the next chunk is asked for.  Nothing is passed on.
Collect ==
    /\ opc = "collect"
    /\ pc = "yield"
    /\ LET chunk == out[Len(out)]
       IN  IF chunk.content # <<>>
           THEN /\ accumulatedContent' = Concat(<<accumulatedContent, chunk.content>>)
                /\ fullContent' = Append(fullContent, chunk)
           ELSE UNCHANGED <<accumulatedContent, fullContent>>
    /\ lineEnd' = NextLineEnd(buffer)
    /\ pc' = "split"
    /\ UNCHANGED <<turn, stream, wire, upstream, kind, locked, pending, buffer, isFirstChunk,
                   flushLines, out, opc, call, emitted, executed>>
    /\ UNCHANGED other

\* The generator getCompletion returns for an outcome of recovery: the
\* function call stream for a call, emitTextStream otherwise.
TextStreamAlways(r) == "text"
DispatchAlways(r) == "dispatch"
ReturnedStream(r) == IF r.kind = "call" THEN "dispatch" ELSE "text"

\* After the loop: recovery on the accumulated text; getCompletion returns a
\* generator that has not run yet.
Recover ==
    /\ opc = "collect"
    /\ StreamEnded
    /\ call' = Recovery(accumulatedContent)
    /\ opc' = ReturnedStream(Recovery(accumulatedContent))
    /\ UNCHANGED <<gen, accumulatedContent, fullContent, emitted, executed>>
    /\ UNCHANGED other

\* The read failed: catch (error) logs and throws again.
CollectFails ==
    /\ opc = "collect"
    /\ pc = "failed"
    /\ opc' = "error"
    /\ UNCHANGED <<gen, accumulatedContent, fullContent, call, emitted, executed>>
    /\ UNCHANGED other

\* emitTextStream: one chunk with the whole text.
EmitText ==
    /\ opc = "text"
    /\ emitted' = Append(emitted, TextChunk(accumulatedContent))
    /\ opc' = "end"
    /\ UNCHANGED <<gen, accumulatedContent, fullContent, call, executed>>
    /\ UNCHANGED other

BashByName(r) == r.name = "Bash"
ExplicitBash(r) == r.explicit /\ r.name = "Bash" /\ GetParam(r.params, "command") # <<>>
\* functionName === "Bash" && params.command
IsDirectBash(r) == r.name = "Bash" /\ GetParam(r.params, "command") # <<>>

\* The function call stream starts.  A Bash call with a command is executed
\* and its outcome reported as content; any other call starts the three
\* chunks of a function call.
Dispatch ==
    /\ opc = "dispatch"
    /\ IF IsDirectBash(call)
       THEN \E o \in ExecOutcomes :
               LET command == GetParam(call.params, "command")
               IN  /\ executed' = Append(executed, command)
                   /\ emitted' = Append(emitted, ResultChunk(command, o))
                   /\ opc' = "bashStop"
       ELSE /\ emitted' = Append(emitted, FcStartChunk(call.name))
            /\ opc' = "fcArgs"
            /\ UNCHANGED executed
    /\ UNCHANGED <<gen, accumulatedContent, fullContent, call>>
    /\ UNCHANGED other

\* The final chunk after the report of a command, then return.
EmitStop ==
    /\ opc = "bashStop"
    /\ emitted' = Append(emitted, StopChunk)
    /\ opc' = "end"
    /\ UNCHANGED <<gen, accumulatedContent, fullContent, call, executed>>
    /\ UNCHANGED other

\* The second chunk of a function call: the arguments, whole.
EmitArgs ==
    /\ opc = "fcArgs"
    /\ emitted' = Append(emitted, FcArgsChunk(call.params))
    /\ opc' = "fcDone"
    /\ UNCHANGED <<gen, accumulatedContent, fullContent, call, executed>>
    /\ UNCHANGED other

\* The third chunk of a function call: finish_reason 'function_call'.
EmitDone ==
    /\ opc = "fcDone"
    /\ emitted' = Append(emitted, FcDoneChunk)
    /\ opc' = "end"
    /\ UNCHANGED <<gen, accumulatedContent, fullContent, call, executed>>
    /\ UNCHANGED other

Next ==
    \/ Collect
    \/ Recover
    \/ CollectFails
    \/ EmitText
    \/ Dispatch
    \/ EmitStop
    \/ EmitArgs
    \/ EmitDone
    \/ Call
    \/ Start
    \/ ReadValue
    \/ ReadDone
    \/ ReadThrows
    \/ SplitLine
    \/ Resume
    \/ FlushLine
    \/ ResumeFlush
    \/ Return

Spec == Init /\ [][Next]_vars

\* A generator read to its end by a consumer that keeps iterating, on an
\* upstream that delivers its buffers and then ends: no read fails and the
\* consumer never stops early.  The event loop runs whatever can run.
DrainInputs == {JoinLines(ls, t) : ls \in SeqsUpTo(LineKinds, MaxFrames), t \in BOOLEAN}

DrainInit ==
    /\ turn = [request |-> OllamaRequest, path |-> "ollamaClient", parser |-> "ndjson"]
    /\ opc = "off"
    /\ kind \in Kinds
    /\ stream = TRUE
    /\ wire \in DrainInputs
    /\ InitGen
    /\ other = NoTurn

DrainNext ==
    \/ Call
    \/ Start
    \/ ReadValue
    \/ ReadDone
    \/ SplitLine
    \/ Resume
    \/ FlushLine
    \/ ResumeFlush

DrainSpec == DrainInit /\ [][DrainNext]_vars /\ WF_vars(DrainNext)

\* The choice of the path and of the parser, for every request and
\* configuration, before any byte is read.
SelectInit ==
    /\ turn \in {NewTurn(r) : r \in Requests}
    /\ opc = "off"
    /\ kind = "openai"
    /\ stream = TRUE
    /\ wire = <<>>
    /\ InitGen
    /\ other = NoTurn

SelectNext ==
    \/ Route
    \/ SelectParser

SelectSpec == SelectInit /\ [][SelectNext]_vars

\* ------------------------------------------------------------------ two turns
\* Two turns in one process.  Everything a turn works on is a local of its
\* generator or of its call of getCompletion (let buffer, let isFirstChunk,
\* let accumulatedContent, the reader, the decoder): the modules keep no
\* variable of their own.  JavaScript runs one turn at a time and can pass
\* to the other one only where the running turn awaits.
Snapshot ==
    [turn |-> turn, stream |-> stream, wire |-> wire, upstream |-> upstream,
     kind |-> kind, pc |-> pc, locked |-> locked, pending |-> pending,
     buffer |-> buffer, lineEnd |-> lineEnd, isFirstChunk |-> isFirstChunk,
     flushLines |-> flushLines, out |-> out, opc |-> opc,
     accumulatedContent |-> accumulatedContent, fullContent |-> fullContent,
     call |-> call, emitted |-> emitted, executed |-> executed]

\* A turn that has not started, as InitGen describes it.
FreshTurn(k, o, w) ==
    [turn |-> [request |-> OllamaRequest, path |-> "ollamaClient", parser |-> "ndjson"],
     stream |-> TRUE, wire |-> w, upstream |-> w, kind |-> k, pc |-> "call",
     locked |-> FALSE, pending |-> FALSE, buffer |-> <<>>, lineEnd |-> -1,
     isFirstChunk |-> TRUE, flushLines |-> <<>>, out |-> <<>>, opc |-> o,
     accumulatedContent |-> <<>>, fullContent |-> <<>>, call |-> NoCall,
     emitted |-> <<>>, executed |-> <<>>]

\* The upstreams of the turns that are read by a consumer of their own.
TurnInputs ==
    {Frame(<<"a">>, FALSE) \o <<NL>> \o Frame(<<"b">>, TRUE) \o <<NL>>,
     Frame(<<LeadByte, ContByte>>, FALSE) \o <<NL>>,
     <<Garbage, NL>> \o Frame(<<"a">>, FALSE) \o <<NL>>,
     <<SP, SP, SP, NL>> \o Frame(<<"a">>, FALSE) \o <<NL>>,
     Frame(<<"a">>, FALSE)}

\* The upstreams of the turns getCompletion reads.
TurnOrchInputs ==
    {Frame(<<"ok">>, FALSE) \o <<NL>> \o Frame(<<"fine">>, FALSE) \o <<NL>>,
     Frame(<<"git", "status">>, FALSE) \o <<NL>>,
     Frame(<<FcOpen, InvokeRead, ParamPath, "f", ParamClose, FcClose>>, FALSE) \o <<NL>>}

TurnsInit ==
    /\ turn = [request |-> OllamaRequest, path |-> "ollamaClient", parser |-> "ndjson"]
    /\ stream = TRUE
    /\ \/ /\ opc = "off"
          /\ kind \in Kinds
          /\ wire \in TurnInputs
          /\ other \in {FreshTurn(kind, "off", w) : w \in TurnInputs}
       \/ /\ opc = "collect"
          /\ kind = "client"
          /\ wire \in TurnOrchInputs
          /\ other \in {FreshTurn("client", "collect", w) : w \in TurnOrchInputs}
    /\ InitGen

\* The running turn stands at an await (or has not started, or is over): the
\* line-splitting loop has no await between two yields.
AtAwait == pc \notin {"split", "flush"}

\* The turn is over for good.
Over(t) ==
    /\ t.pc \in {"done", "failed", "raised", "closed"}
    /\ t.opc \in {"off", "end", "error"}

\* What the turn that is resumed finds in its let buffer: what it left there.
SharedBuffer == buffer
ResumedBuffer == other.buffer

\* The event loop passes from the running turn to the waiting one.
Switch ==
    /\ AtAwait
    /\ other.pc # "none"
    /\ ~Over(other)
    /\ other' = Snapshot
    /\ turn' = other.turn
    /\ stream' = other.stream
    /\ wire' = other.wire
    /\ upstream' = other.upstream
    /\ kind' = other.kind
    /\ pc' = other.pc
    /\ locked' = other.locked
    /\ pending' = other.pending
    /\ buffer' = ResumedBuffer
    /\ lineEnd' = other.lineEnd
    /\ isFirstChunk' = other.isFirstChunk
    /\ flushLines' = other.flushLines
    /\ out' = other.out
    /\ opc' = other.opc
    /\ accumulatedContent' = other.accumulatedContent
    /\ fullContent' = other.fullContent
    /\ call' = other.call
    /\ emitted' = other.emitted
    /\ executed' = other.executed

TurnsNext ==
    \/ Next
    \/ Switch

TurnsSpec == TurnsInit /\ [][TurnsNext]_vars

\* ------------------------------------------------------------------ event stream
\* The loop of createStreamProcessor for an upstream that is not Ollama:
\* lines that begin with "data: " and carry a JSON payload, and the sentinel
\* "data: [DONE]".  The prefix is the word data: and one blank.
DataWord == "data:"
Sentinel == "[DONE]"
DataLine(payload) == <<DataWord, SP>> \o payload
SentinelLine == DataLine(<<Sentinel>>)

\* line.startsWith('data: ')
StartsWithData(line) == Len(line) >= 2 /\ line[1] = DataWord /\ line[2] = SP

\* line.slice(6).trim()
PayloadOf(line) == Trim(SubstringFrom(line, 2))

\* yield parsed: the value of JSON.parse(data), as it is.
Parsed(p) == [content |-> p.content, done |-> p.done]

\* One test of while (lineEnd !== -1) and, when it holds, one run of the body
\* of the "data: " loop.  The sentinel and an empty payload leave through
\* continue, which skips the assignment of lineEnd at the end of the body.
SplitData ==
    /\ turn.parser = "sse"
    /\ pc = "split"
    /\ IF lineEnd = -1
       THEN /\ pc' = "read"
            /\ UNCHANGED <<buffer, lineEnd, out>>
       ELSE LET line == Trim(Substring(buffer, 0, lineEnd))
                rest == SubstringFrom(buffer, lineEnd + 1)
                p == ParseJSON(PayloadOf(line))
            IN  /\ buffer' = rest
                /\ IF line = SentinelLine
                   THEN UNCHANGED <<pc, lineEnd, out>>
                   ELSE IF StartsWithData(line) /\ PayloadOf(line) = <<>>
                        THEN UNCHANGED <<pc, lineEnd, out>>
                        ELSE IF StartsWithData(line) /\ p.ok
                             THEN /\ out' = Append(out, Parsed(p))
                                  /\ pc' = "yield"
                                  /\ UNCHANGED lineEnd
                             ELSE /\ lineEnd' = NextLineEnd(rest)
                                  /\ pc' = "split"
                                  /\ UNCHANGED out
    /\ UNCHANGED <<turn, stream, wire, upstream, kind, locked, pending, isFirstChunk,
                   flushLines>>
    /\ UNCHANGED orch
    /\ UNCHANGED other

\* for (const line of lines) after the loop, one line a step: a line with the
\* prefix that is not the sentinel and has a payload is parsed and yielded.
FlushData ==
    /\ turn.parser = "sse"
    /\ pc = "flush"
    /\ IF flushLines = <<>>
       THEN /\ pc' = "done"
            /\ locked' = Released
            /\ UNCHANGED <<flushLines, out>>
       ELSE LET line == Head(flushLines)
                p == ParseJSON(PayloadOf(line))
            IN  /\ flushLines' = Tail(flushLines)
                /\ UNCHANGED locked
                /\ IF /\ StartsWithData(line)
                      /\ line # SentinelLine
                      /\ PayloadOf(line) # <<>>
                      /\ p.ok
                   THEN /\ out' = Append(out, Parsed(p))
                        /\ pc' = "yieldFlush"
                   ELSE UNCHANGED <<pc, out>>
    /\ UNCHANGED <<turn, stream, wire, upstream, kind, pending, buffer, lineEnd, isFirstChunk>>
    /\ UNCHANGED orch
    /\ UNCHANGED other

\* OpenAI configured as the provider, a request for the large model.
OpenAIRequest ==
    [type |-> "large", largeModelProvider |-> "openai",
     smallModelProvider |-> "openai", largeURLOllama |-> FALSE,
     smallURLOllama |-> FALSE, modelOllama |-> FALSE]

\* The lines an event-stream upstream may send: two data lines, the
\* sentinel, a data line with an empty payload, a line without the prefix.
EventLineKinds ==
    {DataLine(Frame(<<"a">>, FALSE)),
     DataLine(Frame(<<"b">>, TRUE)),
     SentinelLine,
     <<DataWord, SP>>,
     Frame(<<"a">>, FALSE)}

EventInputs == {JoinLines(ls, t) : ls \in SeqsUpTo(EventLineKinds, MaxLines), t \in BOOLEAN}

EventInit ==
    /\ turn = [request |-> OpenAIRequest, path |-> "streamProcessor", parser |-> "sse"]
    /\ opc = "off"
    /\ kind = "openai"
    /\ stream = TRUE
    /\ wire \in EventInputs
    /\ InitGen
    /\ other = NoTurn

EventNext ==
    \/ Call
    \/ Start
    \/ ReadValue
    \/ ReadDone
    \/ ReadThrows
    \/ SplitData
    \/ Resume
    \/ FlushData
    \/ ResumeFlush
    \/ Return

EventSpec == EventInit /\ [][EventNext]_vars

\* ------------------------------------------------------------------ messages
\* The message list of a request on the Ollama path.  A message is its role
\* and its content; <<>> stands for a content that is '', null or undefined.
SystemMessage(prompt) == [role |-> "system", content |-> prompt]

\* The list with the custom prompt put in front and nothing removed.
Prepended(ms, prompt) ==
    IF prompt # <<>> THEN <<SystemMessage(prompt)>> \o ms ELSE ms

\* let modifiedMessages = [...opts.messages]; with a custom system prompt the
\* system messages are filtered out and the prompt is put in front.
ModifiedMessages(ms, prompt) ==
    IF prompt # <<>>
    THEN <<SystemMessage(prompt)>> \o SelectSeq(ms, LAMBDA m : m.role # "system")
    ELSE ms

\* messages.filter(m => m && m.content)
FilteredMessages(ms) == SelectSeq(ms, LAMBDA m : m.content # <<>>)

\* The messages a caller may hand over: the last one is an assistant message
\* without content, as one that only carries tool calls.
MessageKinds ==
    {SystemMessage(<<"s">>),
     [role |-> "user", content |-> <<"u">>],
     [role |-> "user", content |-> <<"v">>],
     [role |-> "assistant", content |-> <<"a">>],
     [role |-> "assistant", content |-> <<>>]}

\* modelConfig?.customSystemPrompt: none (or ''), or a prompt.
Prompts == {<<>>, <<"custom">>}

\* getCompletion is called on the Ollama path, streaming or not, with a
\* message list; nothing is built and nothing is sent yet.
MessagesInit ==
    /\ \E ms \in SeqsUpTo(MessageKinds, MaxMessages), prompt \in Prompts,
          path \in {"ollamaClient", "ollamaCollect"} :
          turn = [request |-> OllamaRequest, path |-> path, parser |-> "ndjson",
                  messages |-> ms, customSystemPrompt |-> prompt,
                  modifiedMessages |-> <<>>, sent |-> <<>>]
    /\ opc = "build"
    /\ kind = "client"
    /\ stream = TRUE
    /\ wire = <<>>
    /\ InitGen
    /\ other = NoTurn

\* getCompletion builds the list it hands to getOllamaCompletion.
BuildMessages ==
    /\ opc = "build"
    /\ turn' = [turn EXCEPT !.modifiedMessages =
                    ModifiedMessages(turn.messages, turn.customSystemPrompt)]
    /\ opc' = "request"
    /\ UNCHANGED <<stream, wire, upstream, kind, pc, locked, pending, buffer,
                   lineEnd, isFirstChunk, flushLines, out>>
    /\ UNCHANGED <<accumulatedContent, fullContent, call, emitted, executed>>
    /\ UNCHANGED other

\* sendOllamaRequest puts the messages that have a content in the body of
\* the request.
SendRequest ==
    /\ opc = "request"
    /\ turn' = [turn EXCEPT !.sent = FilteredMessages(turn.modifiedMessages)]
    /\ opc' = "sent"
    /\ UNCHANGED <<stream, wire, upstream, kind, pc, locked, pending, buffer,
                   lineEnd, isFirstChunk, flushLines, out>>
    /\ UNCHANGED <<accumulatedContent, fullContent, call, emitted, executed>>
    /\ UNCHANGED other

MessagesNext ==
    \/ BuildMessages
    \/ SendRequest

MessagesSpec == MessagesInit /\ [][MessagesNext]_vars

\* ------------------------------------------------------------------ recovery alone
\* The phrases of the texts recovery is run on.
RecoveryPhrases ==
    {<<"ok">>,
     <<TextNL>>,
     <<"I'll", "run", "git", "add", "to", "stage", "changes">>,
     <<"git", "commit">>,
     <<"-m", DQuote, "msg", DQuote>>,
     <<"git", "status">>,
     <<"git", "push">>,
     <<"run", "git", "status">>,
     <<"run", "ls", "-la">>,
     <<"at", "this", "stage", "the", "changes", "are", "small">>,
     <<ThinkOpen, "git", "diff", ThinkClose>>,
     <<ThinkOpen, "git", "add", ThinkClose>>,
     <<ThinkOpen, "git", "commit", ThinkClose>>,
     <<ThinkOpen, "ls", ThinkClose>>,
     <<FcOpen, InvokeBash, ParamCommand, "ls", ParamClose, FcClose>>,
     <<FcOpen, InvokeRead, ParamPath, "f", ParamClose, FcClose>>,
     <<FcOpen, InvokeRead, ParamPath, DQuote, "f", DQuote, ParamClose,
       ParamCommand, "ls", ParamClose, FcClose>>,
     <<FcOpen, InvokeBash, ParamCommand, "ls", "-la", ParamClose,
       ParamPath, DQuote, "f", DQuote, ParamClose, FcClose>>}

RecoveryTexts ==
    {Concat(ps) : ps \in SeqsUpTo(RecoveryPhrases, MaxPhrases)} \ {<<>>}

\* getCompletion on its Ollama path, streaming or not, once the collect loop
\* has read a stream of one frame to its end.
RecoveryInit ==
    /\ \E t \in RecoveryTexts :
          /\ wire = Frame(t, FALSE) \o <<NL>>
          /\ out = <<ClientChunk(t, FALSE)>>
          /\ \/ /\ turn = [request |-> OllamaRequest, path |-> "ollamaClient", parser |-> "ndjson"]
                /\ opc = "collect"
                /\ accumulatedContent = t
                /\ fullContent = <<ClientChunk(t, FALSE)>>
             \/ /\ turn = [request |-> OllamaRequest, path |-> "ollamaCollect", parser |-> "ndjson"]
                /\ opc = "collectAll"
                /\ accumulatedContent = <<>>
                /\ fullContent = t
    /\ stream = TRUE
    /\ upstream = <<>>
    /\ kind = "client"
    /\ pc = "done"
    /\ locked = FALSE
    /\ pending = FALSE
    /\ buffer = <<>>
    /\ lineEnd = -1
    /\ isFirstChunk = FALSE
    /\ flushLines = <<>>
    /\ call = NoCall
    /\ emitted = <<>>
    /\ executed = <<>>
    /\ other = NoTurn

\* After the loop of the non-streaming path: recovery on fullContent.
NonStreamRecover ==
    /\ opc = "collectAll"
    /\ StreamEnded
    /\ call' = NonStreamRecovery(fullContent)
    /\ opc' = "respond"
    /\ UNCHANGED <<gen, accumulatedContent, fullContent, emitted, executed>>
    /\ UNCHANGED other

\* The non-streaming path returns one message: the report of the executed
\* command, the function call, or the text.
Respond ==
    /\ opc = "respond"
    /\ IF call.kind # "call"
       THEN emitted' = Append(emitted, TextChunk(fullContent)) /\ UNCHANGED executed
       ELSE IF IsDirectBash(call)
       THEN \E o \in ExecOutcomes :
               LET command == GetParam(call.params, "command")
               IN  /\ executed' = Append(executed, command)
                   /\ emitted' = Append(emitted, ResultMessage(command, o))
       ELSE emitted' = Append(emitted, FcMessage(call.name, call.params)) /\ UNCHANGED executed
    /\ opc' = "end"
    /\ UNCHANGED <<gen, accumulatedContent, fullContent, call>>
    /\ UNCHANGED other

RecoveryNext ==
    \/ Recover
    \/ EmitText
    \/ Dispatch
    \/ EmitStop
    \/ EmitArgs
    \/ EmitDone
    \/ NonStreamRecover
    \/ Respond

RecoverySpec == RecoveryInit /\ [][RecoveryNext]_vars

\* ------------------------------------------------------------------ reference
\* What the upstream sent, read as a whole: the decoded text and its lines.
WireText == DecodeBytes(FALSE, wire).chars

Terminated == WireText # <<>> /\ WireText[Len(WireText)] = NL

\* The lines of the turn; a last line without newline is a line too.
Lines ==
    LET ls == SplitNL(WireText)
    IN  IF WireText = <<>> \/ Terminated THEN SubSeq(ls, 1, Len(ls) - 1) ELSE ls

HasContent(line) == ParseJSON(line).ok /\ ParseJSON(line).content # <<>>
IsBlank(line) == Trim(line) = <<>>
IsMalformed(line) == ~IsBlank(line) /\ ~ParseJSON(line).ok

RECURSIVE ContentsOf(_)
\* The message.content fields of the lines, in order, concatenated.
ContentsOf(ls) ==
    IF ls = <<>> THEN <<>>
    ELSE ParseJSON(Head(ls)).content \o ContentsOf(Tail(ls))

RECURSIVE OutContent(_)
\* The content of the chunks, in order, concatenated.
OutContent(chunks) ==
    IF chunks = <<>> THEN <<>>
    ELSE Head(chunks).content \o OutContent(Tail(chunks))

RECURSIVE ChunksOf(_, _, _)
\* One chunk for each line that carries content, in order; the first of them
\* carries the role.
ChunksOf(ls, k, first) ==
    IF ls = <<>> THEN <<>>
    ELSE LET p == ParseJSON(Head(ls))
         IN  IF HasContent(Head(ls))
             THEN <<IF k = "client" THEN [content |-> p.content, done |-> p.done]
                    ELSE [role |-> IF first THEN "assistant" ELSE Null,
                          content |-> p.content, fcName |-> Null, fcArgs |-> NoValue,
                          finish |-> IF p.done THEN "stop" ELSE Null]>>
                  \o ChunksOf(Tail(ls), k, FALSE)
             ELSE ChunksOf(Tail(ls), k, first)

Finished == pc = "done"
Normalizer == kind \in {"stream", "openai"}
\* ------------------------------------------------------------------ claims
\* The chunks the consumer of the turn has received: those of the stream
\* getCompletion returned, or those of the generator read directly.
Delivered == IF opc = "off" THEN out ELSE emitted
Orchestrated == opc # "off"
TurnOver == (opc = "off" /\ Finished) \/ opc = "end"

\* C1 (as claimed): role-once: in every turn, also one without any content
\* frame, exactly one emitted chunk carries the role "assistant", and it is
\* the first chunk of the turn.
C1_RoleExactlyOnce ==
    ((Normalizer \/ Orchestrated) /\ TurnOver) =>
        /\ Delivered # <<>>
        /\ \A i \in 1..Len(Delivered) : (Delivered[i].role = "assistant") <=> (i = 1)

\* C1 (amended): at most one emitted chunk carries the role "assistant": the
\* first chunk of the turn carries it and no later chunk does.  The stream
\* getCompletion returns always yields a first chunk; a normalizer yields no
\* chunk, hence no role, in a turn without content frame.
C1_RoleOnFirstOnly ==
    (Normalizer \/ Orchestrated) =>
        /\ \A i \in 1..Len(Delivered) : (Delivered[i].role = "assistant") <=> (i = 1)
        /\ opc = "end" => emitted # <<>>

C1_Witness ==
    /\ opc = "off"
    /\ Normalizer
    /\ Finished
    /\ Len(out) >= 2
    /\ out[1].role = "assistant"

\* C2: a recovered call replaces the buffered text.  When recovery yields a
\* call, no emitted chunk has the accumulated text, or the content of a
\* buffered chunk, as its content, and the turn consists of the report of the
\* executed command or of the function call; when it yields none, the turn
\* is the one chunk with the accumulated text and nothing is executed.
C2_ReplaceNotAppend ==
    Orchestrated =>
        /\ call.kind = "call" =>
              \A i \in 1..Len(emitted) :
                 /\ emitted[i].content # accumulatedContent
                 /\ \A j \in 1..Len(fullContent) :
                       emitted[i].content # fullContent[j].content
        /\ (opc = "end" /\ call.kind = "call") =>
              (executed # <<>>) # (\E i \in 1..Len(emitted) : emitted[i].fcName # Null)
        /\ (opc = "end" /\ call.kind # "call") =>
              emitted = <<TextChunk(accumulatedContent)>> /\ executed = <<>>

C2_Witness ==
    /\ opc = "end"
    /\ call.kind = "call"
    /\ executed # <<>>
    /\ Len(fullContent) >= 2

\* C3: mutual exclusion: no chunk, whichever path emits it, has both a
\* non-null content and a non-null function call name or arguments.
C3_MutualExclusion ==
    (Normalizer \/ Orchestrated) =>
        \A i \in 1..Len(Delivered) :
           ~(/\ Delivered[i].content # NoValue
             /\ Delivered[i].fcName # Null \/ Delivered[i].fcArgs # NoValue)

C3_Witness ==
    /\ opc = "end"
    /\ \E i \in 1..Len(emitted) : emitted[i].fcArgs # NoValue
    /\ \E i \in 1..Len(emitted) : emitted[i].fcName # Null

\* C4: nothing is forwarded while the upstream is read: a chunk is delivered
\* only after the generator has read the stream to its end and recovery has
\* run on the whole accumulated text.
C4_BufferedUntilEnd ==
    (Orchestrated /\ emitted # <<>>) =>
        /\ pc = "done"
        /\ upstream = <<>>
        /\ accumulatedContent = OutContent(out)
        /\ call = Recovery(accumulatedContent)

C4_Witness == Orchestrated /\ emitted # <<>> /\ Len(out) >= 2

\* C5 (as claimed): DONE is terminal: once a chunk with a non-null finish
\* reason has been emitted, no further chunk is produced; so only the last
\* chunk of a turn can carry a finish reason.
C5_DoneIsTerminal ==
    (Normalizer \/ Orchestrated) =>
        \A i \in 1..(Len(Delivered) - 1) : Delivered[i].finish = Null

\* C6: a generator that took the reader holds the lock while it runs and has
\* released it once it has left, whether by the end of the stream ("done"),
\* by the consumer stopping early ("closed") or by an exception ("failed").
C6_LockReleased ==
    /\ pc \in {"done", "closed", "failed"} => ~locked
    /\ pc \in {"read", "split", "yield", "flush", "yieldFlush"} => locked

C6_Witness == pc = "closed" /\ ~locked /\ out # <<>> /\ upstream # <<>>

\* C7: round trip.  The input is N lines with content followed by a final
\* line with done true, each line that carries content ended by a newline
\* (createStreamProcessor also takes the last line without one).
RoundTripInput ==
    /\ Lines # <<>>
    /\ \A i \in 1..(Len(Lines) - 1) :
          HasContent(Lines[i]) /\ ~ParseJSON(Lines[i]).done
    /\ ParseJSON(Lines[Len(Lines)]).done
    /\ Terminated \/ kind = "openai" \/ ~HasContent(Lines[Len(Lines)])

\* C7: for such an input the contents of the emitted chunks, concatenated,
\* equal the message.content fields of the input lines, concatenated in order.
C7_RoundTrip ==
    (Finished /\ RoundTripInput) => OutContent(out) = ContentsOf(Lines)

C7_Witness ==
    /\ Finished
    /\ Len(out) >= 2
    /\ out[1].content # out[2].content
    /\ RoundTripInput

\* C8: the input has a malformed line between two lines with content, and
\* otherwise only valid or malformed lines, each ended by a newline.
MalformedInput ==
    /\ Terminated
    /\ \A i \in 1..Len(Lines) : ParseJSON(Lines[i]).ok \/ IsMalformed(Lines[i])
    /\ \E i, j, k \in 1..Len(Lines) :
          /\ i < j /\ j < k
          /\ HasContent(Lines[i]) /\ IsMalformed(Lines[j]) /\ HasContent(Lines[k])

\* C8: malformed-frame resilience: for such an input no step raises an error
\* out of parsing (the generator fails only when the read itself fails), and
\* at the end exactly the chunks of the valid lines were emitted, in order,
\* the role on the first of them only.
C8_MalformedSkipped ==
    [][/\ (pc' = "failed" /\ pc # "read") => ~MalformedInput
       /\ (pc' = "done" /\ pc # "done" /\ MalformedInput) =>
              out' = ChunksOf(Lines, kind, TRUE)]_vars

C8_Witness == Finished /\ Len(out) = 2 /\ MalformedInput

\* C9: the input has only valid frames and blank lines, each ended by a
\* newline, with a blank line among them.
BlankInput ==
    /\ Terminated
    /\ \A i \in 1..Len(Lines) : ParseJSON(Lines[i]).ok \/ IsBlank(Lines[i])
    /\ \E i \in 1..Len(Lines) : IsBlank(Lines[i])

\* C9 (as claimed): blank lines are dropped: the chunks emitted are those of
\* the same stream without its blank lines.
C9_BlankLinesDropped ==
    (Finished /\ BlankInput) => out = ChunksOf(Lines, kind, TRUE)

\* C10 (as claimed): end-of-input flush: when the stream ends in a line
\* without newline, that line is processed as a final line, in each of the
\* three generators.
C10_FinalLineFlushed ==
    (/\ Finished
     /\ ~Terminated
     /\ \A i \in 1..Len(Lines) : ParseJSON(Lines[i]).ok)
    => out = ChunksOf(Lines, kind, TRUE)

\* C11 (as claimed): an absent stream is raised at once: each processor
\* throws at the call that receives the stream, so no generator is returned,
\* no reader is taken and no chunk is produced.
C11_AbsentStreamRaisedAtCall ==
    ~stream =>
        /\ pc \in {"call", "raised"}
        /\ ~locked
        /\ out = <<>>

\* The upstream of getCompletion ended (the reader reported the end) and no
\* line of it carried done true.
NoFinalMarker ==
    /\ Orchestrated
    /\ stream
    /\ pc = "done"
    /\ \A i \in 1..Len(Lines) : ~ParseJSON(Lines[i]).done

\* C12 (as claimed): when the upstream ends without final marker the turn
\* ends with the text received so far as ordinary content, finish reason
\* "stop", whatever the text is.
C12_TextOnImplicitFinal ==
    (NoFinalMarker /\ opc = "end") => emitted = <<TextChunk(accumulatedContent)>>

\* C12 (amended): the end of the upstream without final marker is an implicit
\* final event: no error is raised, the loop over the chunks ends, recovery runs
\* on the text received so far, and when it returns no call that text is
\* emitted as the one content chunk with finish reason "stop"; when it
\* returns a call the call is dispatched as after a final marker.
C12_ImplicitFinal ==
    NoFinalMarker =>
        /\ opc # "error"
        /\ opc = "collect" => StreamEnded
        /\ accumulatedContent = ContentsOf(Lines)
        /\ opc = "end" =>
              IF call.kind = "call"
              THEN emitted[Len(emitted)].finish \in {"stop", "function_call"}
              ELSE emitted = <<TextChunk(ContentsOf(Lines))>>

C12_Witness ==
    /\ NoFinalMarker
    /\ opc = "end"
    /\ call.kind = "none"
    /\ Len(fullContent) >= 2

\* The provider the configuration names for the model type of the request.
ResolvedProvider(r) ==
    IF r.type = "large" THEN r.largeModelProvider ELSE r.smallModelProvider

\* C13 (as claimed): the parser of a turn follows the provider resolved for
\* its request: NDJSON when that provider is Ollama, the Event-Stream parser
\* when it is not, for the large and for the small model type.
C13_ParserFollowsProvider ==
    turn.parser # "none" =>
        ((turn.parser = "ndjson") <=> (ResolvedProvider(turn.request) = "ollama"))

\* The turn has ended after a command was handed to execSync.
BashDispatched == Orchestrated /\ opc = "end" /\ executed # <<>>

\* The text holds the command in inline code and, after it, a fenced block
\* with the text of the outcome.
ReportsOutcome(text, command, o) ==
    /\ Includes(text, <<BackTick>> \o command \o <<BackTick>>)
    /\ Includes(text, <<Fence, TextNL>> \o o.text \o <<TextNL, Fence>>)
    /\ text[1] = (IF o.ok THEN "Here's the output of" ELSE "Error executing")

OtherCall == Orchestrated /\ call.kind = "call" /\ call.name # "Bash"

\* C15: a call of a function other than Bash is never executed, and its turn
\* is exactly three chunks in this order: the start with the name, one chunk
\* whose arguments are the JSON text of the params, and a chunk with the
\* finish reason "function_call".
C15_OtherCallIsTriple ==
    OtherCall =>
        /\ executed = <<>>
        /\ Len(emitted) <= 3
        /\ Len(emitted) >= 1 =>
              /\ emitted[1].fcName = call.name
              /\ emitted[1].fcArgs = NoValue
              /\ emitted[1].finish = Null
        /\ Len(emitted) >= 2 =>
              /\ emitted[2].fcName = Null
              /\ emitted[2].fcArgs = JSONStringify(call.params)
              /\ emitted[2].finish = Null
        /\ Len(emitted) >= 3 =>
              /\ emitted[3].fcName = Null
              /\ emitted[3].fcArgs = NoValue
              /\ emitted[3].finish = "function_call"
        /\ opc = "end" <=> Len(emitted) = 3

C15_Witness ==
    /\ OtherCall
    /\ opc = "end"
    /\ emitted[1].fcName = "Read"
    /\ emitted[2].fcArgs = <<"{", "file_path", ":", "f", "}">>

\* C16 (as claimed): every recovered call named "Bash" is executed and
\* reported as content; none is passed on as the chunks of a function call,
\* also when the explicit block gives no command or an empty one.
C16_BashAlwaysExecuted ==
    (Orchestrated /\ call.kind = "call" /\ call.name = "Bash") =>
        /\ \A i \in 1..Len(emitted) :
              emitted[i].fcName = Null /\ emitted[i].finish # "function_call"
        /\ opc = "end" => executed # <<>>

\* The turn has ended and recovery gave no call.
NoCallTurn == Orchestrated /\ stream /\ opc = "end" /\ call.kind # "call"

\* C17: when recovery returns no call the turn is exactly one chunk: it has
\* the role "assistant", its content is the content of the upstream frames
\* concatenated in the order of arrival, and its finish reason is "stop".
C17_OneTextChunk ==
    /\ (Orchestrated /\ call.kind # "call") => Len(emitted) <= 1 /\ executed = <<>>
    /\ NoCallTurn =>
          /\ Len(emitted) = 1
          /\ emitted[1].role = "assistant"
          /\ emitted[1].content = ContentsOf(Lines)
          /\ emitted[1].content = OutContent(out)
          /\ emitted[1].fcName = Null /\ emitted[1].fcArgs = NoValue
          /\ emitted[1].finish = "stop"

C17_Witness ==
    /\ NoCallTurn
    /\ Len(out) = 2
    /\ out[1].content # out[2].content
    /\ emitted[1].content = out[1].content \o out[2].content

\* Recovery has run on a text that holds an explicit function call block.
Recovered == Orchestrated /\ opc \notin {"collect", "error"}
BlockFound == Recovered /\ Delimited(accumulatedContent, FcOpen, FcClose).found

\* What the explicit block of the text names: the first invoke tag between
\* the delimiters, Null when there is none.
BlockName ==
    LET inner == Delimited(accumulatedContent, FcOpen, FcClose).inner
        invokes == {i \in 1..Len(inner) : inner[i] \in InvokeTags}
    IN  IF invokes = {} THEN Null ELSE InvokeName(inner[Least(invokes)])

\* C18: a text that holds an explicit function call block is settled by the
\* block alone, whatever the command patterns, the keywords and the <think>
\* scan would find in it: the call has the name and the parameters of the
\* block, and a command is executed only when the block names Bash with it.
C18_ExplicitBlockFirst ==
    BlockFound =>
        /\ call.explicit
        /\ call.name = BlockName
        /\ call.params = ParamsFrom(Delimited(accumulatedContent, FcOpen, FcClose).inner, 1, NoParams)
        /\ \A i \in 1..Len(executed) :
              call.name = "Bash" /\ executed[i] = GetParam(call.params, "command")

C18_Witness ==
    /\ BlockFound
    /\ opc = "end"
    /\ HeuristicCommand(accumulatedContent) = <<"git", "status">>
    /\ call.name = "Read"
    /\ executed = <<>>

\* The text holds an explicit block in which no invoke tag can be read.
UnnamedBlock == BlockFound /\ BlockName = Null

\* C19: when the explicit block gives no function name the whole text is
\* emitted unchanged as one content chunk with finish reason "stop": no
\* heuristic is tried on it and nothing is executed.
C19_UnnamedBlockIsText ==
    UnnamedBlock =>
        /\ call.kind = "unnamed"
        /\ executed = <<>>
        /\ opc \in {"text", "end"}
        /\ opc = "end" =>
              /\ emitted = <<TextChunk(ContentsOf(Lines))>>
              /\ emitted[1].finish = "stop"
              /\ emitted[1].fcName = Null

C19_Witness ==
    /\ UnnamedBlock
    /\ opc = "end"
    /\ HeuristicCommand(accumulatedContent) # NoCommand
    /\ Includes(emitted[1].content, <<FcOpen, "git", "status", FcClose>>)

\* The place in the table of the first pattern that matches the text, 0 when
\* none does.
FirstMatching(text) ==
    LET S == {k \in 1..Len(CommandPatterns) : Matches(CommandPatterns[k], text)}
    IN  IF S = {} THEN 0 ELSE Least(S)

\* Recovery has run the pattern step and some pattern matched.
PatternMatched ==
    /\ Recovered
    /\ ~Delimited(accumulatedContent, FcOpen, FcClose).found
    /\ FirstMatching(accumulatedContent) # 0

\* C20: the first pattern of the table that matches the text gives the
\* command of the recovered call, and the patterns after it are not
\* consulted: the command is the one the loop finds in the table cut after
\* that pattern.
C20_FirstMatchDetermines ==
    PatternMatched =>
        LET k == FirstMatching(accumulatedContent)
            byFirst == PatternCommand(SubSeq(CommandPatterns, 1, k), accumulatedContent, 1)
        IN  /\ byFirst # NoCommand
            /\ call.kind = "call"
            /\ GetParam(call.params, "command") = byFirst

\* The text recovery was run on, and the command it was turned into.
RecoveredText == IF turn.path = "ollamaCollect" THEN fullContent ELSE accumulatedContent
RecoveryDone == opc \in {"text", "dispatch", "bashStop", "fcArgs", "fcDone", "respond", "end"}
BashWith(command) ==
    [kind |-> "call", name |-> "Bash",
     params |-> <<[name |-> "command", value |-> command]>>, explicit |-> FALSE]

GitAddText == <<"I'll", "run", "git", "add", "to", "stage", "changes">>

\* C21: for the text "I'll run git add to stage changes" recovery gives the
\* call of Bash with the command "git add .", on the streaming path and on
\* the non-streaming path.
C21_GitAddDefault ==
    (RecoveryDone /\ RecoveredText = GitAddText) => call = BashWith(<<"git", "add", ".">>)

\* Recovery has run on a text without explicit block.
HeuristicsRun ==
    RecoveryDone /\ ~Delimited(RecoveredText, FcOpen, FcClose).found

\* C22: every text that holds "git commit", no -m message and no explicit
\* block is turned into the commit with the placeholder message, on the
\* streaming path and on the non-streaming path.
C22_GitCommitDefault ==
    (/\ HeuristicsRun
     /\ Includes(RecoveredText, <<"git", "commit">>)
     /\ ~Has(RecoveredText, "-m")) => call = BashWith(DefaultCommit)

\* A plain text: no tag, no command verb and no git subcommand in it.
PlainText(text) ==
    \A i \in 1..Len(text) : text[i] \notin Tags \cup {"run", "execute"} \cup GitSubs

\* C23: on a plain text recovery finds no call, nothing is executed and the
\* text is returned unchanged as content.
C23_NoFalsePositive ==
    (RecoveryDone /\ PlainText(RecoveredText)) =>
        /\ call.kind = "none"
        /\ executed = <<>>
        /\ opc = "end" => emitted = <<TextChunk(RecoveredText)>>

\* The table of the path the turn is on.
PathPatterns == IF turn.path = "ollamaCollect" THEN NonStreamPatterns ELSE CommandPatterns

\* Recovery came to the scan of the reasoning section: no explicit block, no
\* command from the patterns or the keywords, and a <think> section.
ThinkStepReached ==
    /\ HeuristicsRun
    /\ PatternCommand(PathPatterns, RecoveredText, 1) = NoCommand
    /\ KeywordCommand(RecoveredText) = NoCommand
    /\ Delimited(RecoveredText, ThinkOpen, ThinkClose).found

\* C24: the scan of the reasoning section recovers nothing but git status,
\* "git add .", the commit with the placeholder message and git push.
C24_ThinkFallback ==
    (ThinkStepReached /\ call.kind = "call") =>
        GetParam(call.params, "command") \in
            {<<"git", "status">>, <<"git", "add", ".">>, DefaultCommit, <<"git", "push">>}

\* The line a chunk is being built from.
CurrentLine ==
    IF pc = "flush" THEN Head(flushLines) ELSE Trim(Substring(buffer, 0, lineEnd))

\* C25: a chunk a normalizer emits has the finish reason "stop" when the
\* frame it is built from has done true, and null when it has not.
C25_StopOnlyOnDone ==
    [][(kind \in {"stream", "openai"} /\ Len(out') = Len(out) + 1) =>
          out'[Len(out')].finish =
              (IF ParseJSON(CurrentLine).done THEN "stop" ELSE Null)]_vars

C25_Witness ==
    /\ kind \in {"stream", "openai"}
    /\ opc = "off"
    /\ Len(out) = 2
    /\ out[1].finish = Null
    /\ out[2].finish = "stop"
    /\ ~ParseJSON(Lines[1]).done
    /\ ParseJSON(Lines[2]).done

\* C26: the streaming and the non-streaming path reach the same outcome of
\* recovery on every text: the outcome of the turn is the one either path
\* computes, and the command executed is the same.
C26_SameRecovery ==
    RecoveryDone =>
        /\ call = Recovery(RecoveredText)
        /\ call = NonStreamRecovery(RecoveredText)
        /\ \A i \in 1..Len(executed) :
              executed[i] = GetParam(Recovery(RecoveredText).params, "command")

\* The upstream has sent a line with done true.
CompletionSignalled ==
    \E i \in 1..Len(Lines) : ParseJSON(Lines[i]).ok /\ ParseJSON(Lines[i]).done

\* C30: when the upstream has signalled completion, a normalizer that was
\* read to its end has emitted a chunk with the finish reason "stop", and it
\* is its last chunk.
C30_StopOnCompletion ==
    (/\ kind \in {"stream", "openai"}
     /\ opc = "off"
     /\ Finished
     /\ CompletionSignalled) =>
        /\ out # <<>>
        /\ out[Len(out)].finish = "stop"

\* The generator has finished: by its end, by an exception or by return().
Terminal == pc \in {"done", "failed", "raised", "closed"}

\* C28: on a finite upstream every stream processor finishes and the lock
\* of the reader is released, whatever the lines hold.
C28_Terminates == <>(Terminal /\ ~locked)

\* The lines of the running turn are whole and none of them is blank: what
\* the turn emits when it is run alone is then one chunk for each line with
\* content, whatever the buffers the transport delivers.
WholeLines ==
    /\ Terminated
    /\ \A i \in 1..Len(Lines) : ~IsBlank(Lines[i])

\* C27: two turns with their steps interleaved.  A turn emits the chunks it
\* emits when it is run alone: a stream processor one chunk for each of its
\* own lines with content, the first of them with the role; getCompletion
\* collects the text of its own lines and recovers the call of that text.
C27_TurnsIsolated ==
    /\ (Finished /\ WholeLines) => out = ChunksOf(Lines, kind, TRUE)
    /\ (opc \notin {"off", "collect", "error"} /\ WholeLines) =>
          /\ accumulatedContent = ContentsOf(Lines)
          /\ call = Recovery(ContentsOf(Lines))

\* The running turn has finished while the other one is suspended in the
\* middle of its stream, with a rest in its buffer and chunks emitted.
C27_Witness ==
    /\ Finished
    /\ WholeLines
    /\ out # <<>>
    /\ other.pc = "yield"
    /\ other.buffer # <<>>
    /\ other.out # <<>>
    /\ other.wire # wire

\* Two stream processors of the same kind have read the same bytes to the
\* end, each in the buffers its own transport delivered.
SameBytesRead ==
    /\ opc = "off"
    /\ other.pc = "done"
    /\ other.opc = "off"
    /\ Finished
    /\ other.kind = kind
    /\ other.wire = wire

RECURSIVE UpToFinal(_)
\* The lines up to and including the first one with done true.
UpToFinal(ls) ==
    IF ls = <<>> THEN <<>>
    ELSE IF ParseJSON(Head(ls)).ok /\ ParseJSON(Head(ls)).done THEN <<Head(ls)>>
         ELSE <<Head(ls)>> \o UpToFinal(Tail(ls))

\* C31: when the upstream has signalled completion, the text recovery works
\* on is the content of the lines up to and including the completion line,
\* and the call of the turn is the call recovered from that text.
C31_RecoveryAtFinal ==
    (Recovered /\ stream /\ CompletionSignalled) =>
        /\ accumulatedContent = ContentsOf(UpToFinal(Lines))
        /\ call = Recovery(ContentsOf(UpToFinal(Lines)))

\* A line of an event stream that carries a chunk: it has the prefix, is not
\* the sentinel, and its payload is JSON.
IsDataLine(line) ==
    /\ StartsWithData(Trim(line))
    /\ Trim(line) # SentinelLine
    /\ ParseJSON(PayloadOf(Trim(line))).ok

RECURSIVE EventChunksOf(_)
\* The parsed payloads of the data lines, in order.
EventChunksOf(ls) ==
    IF ls = <<>> THEN <<>>
    ELSE (IF IsDataLine(Head(ls))
          THEN <<Parsed(ParseJSON(PayloadOf(Trim(Head(ls)))))>>
          ELSE <<>>) \o EventChunksOf(Tail(ls))

\* C32: the event-stream parser, read to the end, has yielded the parsed
\* payload of every data line, in order, and nothing for a sentinel, for a
\* line with an empty payload and for a line without the prefix.
C32_DiscardedLinesAlone ==
    (turn.parser = "sse" /\ Finished) => out = EventChunksOf(Lines)

\* C33: the command runner is called at most once in a turn, only when the
\* upstream was read to its end, and only for the recovered call when it is
\* named "Bash" and has a command, with that command; a turn whose recovery
\* gave no call has executed nothing.
C33_ExecutedOnceAfterEnd ==
    /\ Len(executed) <= 1
    /\ executed # <<>> =>
          /\ pc = "done"
          /\ upstream = <<>>
          /\ call.kind = "call"
          /\ call.name = "Bash"
          /\ GetParam(call.params, "command") # <<>>
          /\ executed[1] = GetParam(call.params, "command")
    /\ (Orchestrated /\ opc = "end" /\ call.kind # "call") => executed = <<>>

\* A turn of two frames has executed its command and is over.
C33_Witness ==
    /\ Orchestrated
    /\ opc = "end"
    /\ Len(executed) = 1
    /\ Len(fullContent) >= 2

\* The turn has a call that the heuristics synthesized.
Synthesized == RecoveryDone /\ call.kind = "call" /\ ~call.explicit

\* A chunk of the three chunks of a function call.
IsCallChunk(chunk) == chunk.fcName # Null \/ chunk.fcArgs # NoValue \/ chunk.finish = "function_call"

\* C34: a call synthesized by the heuristics is named "Bash" and has a
\* command that is not empty as its one parameter; once dispatched that
\* command was executed, and no chunk of a function call is emitted for it.
\* Chunks of a function call are emitted only for a call read from an
\* explicit block of the text.
C34_SynthesizedIsBash ==
    /\ Synthesized =>
          /\ call.name = "Bash"
          /\ GetParam(call.params, "command") # <<>>
          /\ Len(call.params) = 1
          /\ opc \notin {"dispatch", "respond"} =>
                executed = <<GetParam(call.params, "command")>>
          /\ \A i \in 1..Len(emitted) : ~IsCallChunk(emitted[i])
    /\ (\E i \in 1..Len(emitted) : IsCallChunk(emitted[i])) =>
          /\ call.explicit
          /\ Delimited(RecoveredText, FcOpen, FcClose).found

\* A turn whose text had no block has executed the command the pattern
\* table found in it and is over (the text was: run ls -la).
C34_Witness ==
    /\ Synthesized
    /\ opc = "end"
    /\ executed = <<<<"ls", "-la">>>>
    /\ ~Delimited(RecoveredText, FcOpen, FcClose).found

\* The text of an explicit block from which a call was read.
BlockInner == Delimited(RecoveredText, FcOpen, FcClose).inner

\* The parameter elements of the block: the positions of their opening tags.
\* No element of the texts considered holds the opening tag of another one.
ParamElements ==
    {o \in 1..Len(BlockInner) :
        BlockInner[o] \in ParamTags /\ NextOf(BlockInner, o, ParamClose) # 0}

\* The text between the tags of the element at o.
RawOf(o) == SubSeq(BlockInner, o + 1, NextOf(BlockInner, o, ParamClose) - 1)

\* The text is a JSON string literal.
IsJSONString(raw) ==
    /\ Len(raw) >= 2
    /\ raw[1] = DQuote
    /\ raw[Len(raw)] = DQuote
    /\ \A i \in 2..(Len(raw) - 1) : raw[i] # DQuote

\* C35: the call read from an explicit block has one argument for each
\* parameter name of the block and no other; the value of an argument is what
\* the text of the (last) element of that name decodes to when it is JSON and
\* that text itself otherwise.  A text that is not JSON neither ends recovery
\* nor removes another argument.
C35_ParamsDecodedOrRaw ==
    (RecoveryDone /\ call.kind = "call" /\ call.explicit) =>
        /\ Len(call.params) = Cardinality({ParamName(BlockInner[o]) : o \in ParamElements})
        /\ \A o \in ParamElements :
              (\A u \in ParamElements :
                  ParamName(BlockInner[u]) = ParamName(BlockInner[o]) => u <= o) =>
                 GetParam(call.params, ParamName(BlockInner[o])) =
                    IF IsJSONString(RawOf(o))
                    THEN SubSeq(RawOf(o), 2, Len(RawOf(o)) - 1)
                    ELSE RawOf(o)

\* A call with two arguments, one decoded from a JSON string and one taken
\* as the text it was, which is not JSON.
C35_Witness ==
    /\ RecoveryDone
    /\ call.kind = "call"
    /\ call.explicit
    /\ Len(call.params) = 2
    /\ \E o, u \in ParamElements : IsJSONString(RawOf(o)) /\ ~IsJSONString(RawOf(u))
    /\ opc = "end"

\* What each keyword detector looks for in the text.
StatusWords(t) ==
    \/ Includes(t, <<"git", "status">>)
    \/ Includes(t, <<"run", "git">>) /\ Has(t, "status")
    \/ Has(t, "show") /\ Has(t, "status")
    \/ Has(t, "user") /\ Has(t, "git") /\ Has(t, "status")

AddWords(t) ==
    \/ Includes(t, <<"git", "add">>)
    \/ Includes(t, <<"run", "git">>) /\ Has(t, "add")
    \/ Has(t, "stage") /\ Has(t, "changes")

CommitWords(t) ==
    \/ Includes(t, <<"git", "commit">>)
    \/ Includes(t, <<"run", "git">>) /\ Has(t, "commit")
    \/ Includes(t, <<"execute", "git">>) /\ Has(t, "commit")
    \/ Has(t, "commit") /\ Has(t, "changes")

PushWords(t) ==
    \/ Includes(t, <<"git", "push">>)
    \/ Includes(t, <<"run", "git">>) /\ Has(t, "push")
    \/ Includes(t, <<"execute", "git">>) /\ Has(t, "push")
    \/ Has(t, "push") /\ Has(t, "changes") /\ Has(t, "remote")

\* The heuristics ran and no pattern of the table of the path gave a command.
NoPatternCommand ==
    HeuristicsRun /\ PatternCommand(PathPatterns, RecoveredText, 1) = NoCommand

\* The recovered call is a Bash call of the given git subcommand.
GitCall(sub) ==
    /\ call.kind = "call"
    /\ call.name = "Bash"
    /\ SubSeq(GetParam(call.params, "command"), 1, 2) = <<"git", sub>>

\* C36: when no pattern gave a command, the recovered command is that of
\* the first detector, in the order status, add, commit, push, whose words
\* the text holds, whatever the other detectors find in the text and
\* wherever their words stand in it.
C36_KeywordOrder ==
    NoPatternCommand =>
        IF StatusWords(RecoveredText) THEN call = BashWith(<<"git", "status">>)
        ELSE IF AddWords(RecoveredText) THEN GitCall("add")
        ELSE IF CommitWords(RecoveredText) THEN GitCall("commit")
        ELSE IF PushWords(RecoveredText) THEN GitCall("push")
        ELSE TRUE

\* A text in which the words of a later detector stand before those of an
\* earlier one, with no pattern of the table matching.
C36_Witness ==
    /\ NoPatternCommand
    /\ opc = "end"
    /\ RecoveredText = <<"git", "push", "git", "status">>
    /\ executed = <<<<"git", "status">>>>

RECURSIVE InOrderOf(_, _)
\* The messages of a occur in b, in the order they have in a.
InOrderOf(a, b) ==
    IF a = <<>> THEN TRUE
    ELSE IF b = <<>> THEN FALSE
    ELSE IF Head(a) = Head(b) THEN InOrderOf(Tail(a), Tail(b))
    ELSE InOrderOf(a, Tail(b))

\* The system messages of a list, and the others.
SystemOf(ms) == SelectSeq(ms, LAMBDA m : m.role = "system")
OthersOf(ms) == SelectSeq(ms, LAMBDA m : m.role # "system")

\* The request was sent.
Sent == opc = "sent"
CustomPrompt == turn.customSystemPrompt # <<>>

\* C37 (as claimed): with a custom prompt the list sent has one system
\* message, the first one, with the custom prompt, and its other messages
\* are messages of the caller in the order the caller gave them; without
\* one the list sent is the list of the caller.  No step changes the list of
\* the caller.
C37_MessagesSent ==
    /\ [](Sent =>
            IF CustomPrompt
            THEN /\ SystemOf(turn.sent) = <<SystemMessage(turn.customSystemPrompt)>>
                 /\ Head(turn.sent) = SystemMessage(turn.customSystemPrompt)
                 /\ InOrderOf(OthersOf(turn.sent), OthersOf(turn.messages))
            ELSE turn.sent = turn.messages)
    /\ [][turn'.messages = turn.messages]_vars

\* C37 (amended): only the messages with a content are sent.  With a custom
\* prompt the list sent is the custom prompt as a system message followed by
\* the messages of the caller that are not system messages and have a
\* content, in the order of the caller; without one it is the messages of
\* the caller that have a content, in the order of the caller.  No step
\* changes the list of the caller.
C37_MessagesWithContentSent ==
    /\ [](Sent =>
            IF CustomPrompt
            THEN turn.sent = <<SystemMessage(turn.customSystemPrompt)>>
                             \o SelectSeq(turn.messages,
                                    LAMBDA m : m.role # "system" /\ m.content # <<>>)
            ELSE turn.sent = SelectSeq(turn.messages, LAMBDA m : m.content # <<>>))
    /\ [][turn'.messages = turn.messages]_vars

\* A request with a custom prompt was sent for a list that held a system
\* message, a message without content and a message with content.
C37_Witness ==
    /\ Sent
    /\ CustomPrompt
    /\ Len(turn.messages) = 3
    /\ Len(turn.sent) = 2
    /\ SystemOf(turn.messages) # <<>>
    /\ \E i \in 1..3 : turn.messages[i].content = <<>>
====
